---- MODULE Spec2Model ----
(***************************************************************************)
(* A model of cr-helper: the comment manager and its index, the diff       *)
(* parser with its lazy loader and the navigator, the file-system session  *)
(* store (atomic write, load with schema check), the serialized form of a  *)
(* session, the JSON export of a comment, the session manager (create,     *)
(* clean, latest, throttled auto-save, two callers of create_with_id) and  *)
(* the review TUI.                                                         *)
(*                                                                         *)
(* Each component has its own specification over its own variables; the    *)
(* variables of the other components stay at their initial value.          *)
(***************************************************************************)
EXTENDS Integers, Sequences, FiniteSets, TLC

VARIABLES
    comments,      \* CommentManager.comments : CommentId -> Comment
    index,         \* CommentManager.index    : CommentIndex
    cm_op,         \* the last CommentManager call
    cm_arg,        \* the comment id or file id it was given
    cm_result,     \* and what it returned
    diff,          \* DiffNavigator.diff: files -> hunks -> number of lines
    position,      \* DiffNavigator.position
    nav_op,        \* the last DiffNavigator call, with its arguments
    nav_ret,       \* and what it returned
    fs_inodes,     \* the files of the sessions directory: inode -> content
    fs_temp,       \* the inode at temp_path(id), 0 when there is none
    fs_final,      \* the inode at session_path(id), 0 when there is none
    w_pc,          \* where each save call is in atomic_write
    w_fd,          \* the inode a save call has open
    w_off,         \* and how many chunks it has written to it
    w_env,         \* the envelope a save call writes
    w_result,      \* what the last save call of each writer returned
    next_env,      \* the number of save calls so far, plus one
    last_ok,       \* the envelope of the last save call that returned Ok
    r_pc,          \* where the load call is in read_session
    r_fd,          \* the inode the load call has open
    r_buf,         \* what it has read so far
    r_result,      \* what the last load call returned
    disk,          \* the envelope stored in <id>.json, NoFile when there is none
    mem,           \* the Session the program holds, NoSession when it holds none
    env_op,        \* the last storage call on the envelope
    load_ret,      \* what the last load call returned
    now,           \* the clock (Instant::now, Utc::now)
    last_auto_save,      \* SessionManager.last_auto_save: {} for None, {t} for Some(t)
    auto_save_interval,  \* SessionManager.auto_save_interval
    sessions,      \* the sessions the caller holds: id -> Session
    storage,       \* SessionManager.storage: id -> the Session saved
    mgr_op,        \* the last SessionManager call: its name and its session
    mgr_ret,       \* and what it returned
    last_persist,  \* the last auto_save that persisted: {} or {[at, session]}
    parse_input,   \* the diff text given to DiffParser::parse, line by line
    parse_result,  \* what parse returned, NotParsed before the call
    lazy_file,     \* the FileDiff handed to DiffParser::load_lazy_file
    disk_file,     \* what the file system holds at the file's display path
    lazy_op,       \* the last load_lazy_file call: the file before, the result
    callers,       \* the create_with_id calls in progress, one for each caller
    export_in,     \* the comment handed to the JSON exporter
    export_out,    \* the review the exporter wrote for it, as JSON
    app,           \* the App of the review TUI: its AppState, session and cache
    saved,         \* what the storage holds of the session the TUI reviews
    key            \* the last key the TUI handled

cmVars == <<comments, index, cm_op, cm_arg, cm_result>>
navVars == <<diff, position, nav_op, nav_ret>>

fsVars == <<fs_inodes, fs_temp, fs_final, w_pc, w_fd, w_off, w_env, w_result,
            next_env, last_ok, r_pc, r_fd, r_buf, r_result>>

envVars == <<disk, mem, env_op, load_ret>>

mgrVars == <<now, last_auto_save, auto_save_interval, sessions, storage, mgr_op,
             mgr_ret, last_persist>>

parseVars == <<parse_input, parse_result, lazy_file, disk_file, lazy_op>>
raceVars == <<callers>>
exportVars == <<export_in, export_out>>
tuiVars == <<app, saved, key>>

vars == <<cmVars, navVars, fsVars, envVars, mgrVars, parseVars,
    raceVars, exportVars, tuiVars>>

\* what a step of one component leaves alone
notCmVars == <<navVars, fsVars, envVars, mgrVars, parseVars,
    raceVars, exportVars, tuiVars>>
notNavVars == <<cmVars, fsVars, envVars, mgrVars, parseVars,
    raceVars, exportVars, tuiVars>>
notFsVars == <<cmVars, navVars, envVars, mgrVars, parseVars,
    raceVars, exportVars, tuiVars>>
notEnvVars == <<cmVars, navVars, fsVars, mgrVars, parseVars,
    raceVars, exportVars, tuiVars>>
notMgrVars == <<cmVars, navVars, fsVars, envVars, parseVars,
    raceVars, exportVars, tuiVars>>
notParseVars == <<cmVars, navVars, fsVars, envVars, mgrVars,
    raceVars, exportVars, tuiVars>>
notRaceVars == <<cmVars, navVars, fsVars, envVars, parseVars, exportVars, tuiVars>>
notExportVars == <<cmVars, navVars, fsVars, envVars, mgrVars, parseVars, raceVars,
                   tuiVars>>
notTuiVars == <<cmVars, navVars, fsVars, envVars, mgrVars, parseVars, raceVars,
                exportVars>>

(***************************************************************************)
(* Helpers                                                                 *)
(***************************************************************************)
RangeOf(s) == {s[i] : i \in DOMAIN s}

\* a.or(b) of two Options
Or(a, b) == IF a # <<>> THEN a ELSE b

\* a.unwrap_or(d) of an Option
UnwrapOr(a, d) == IF a # <<>> THEN a[1] ELSE d

\* nothing exported yet, no TUI running
NoExport == [none |-> "export"]
NoApp == [none |-> "app"]

\* Vec::retain(|x| x != id)
Retain(s, id) == SelectSeq(s, LAMBDA x : x # id)

\* a map without one of its keys (HashMap::remove)
MapRemove(m, k) == [x \in (DOMAIN m) \ {k} |-> m[x]]

(***************************************************************************)
(* Comments (cr-core/src/comment)                                          *)
(***************************************************************************)
MaxComments == 2

CommentIds == 1..MaxComments
FileIds == {"f1", "f2"}
LineIdSet == {"l1", "l2"}
Severity == {"Info", "Warning", "Critical"}
CommentState == {"Open", "Resolved"}
Contents == {"a", "b"}

\* LineReference::SingleLine / LineReference::Range
SingleLine(f, l) == [kind |-> "SingleLine", file_id |-> f, lines |-> <<l>>]
RangeRef(f, s, e) == [kind |-> "Range", file_id |-> f, lines |-> <<s, e>>]

\* the line references and severities add is tried with: single lines and
\* ranges, sharing lines, files and severities, one range starting and ending
\* on the same line
AddInputs ==
    {<<SingleLine("f1", "l1"), "Info">>,
     <<SingleLine("f1", "l2"), "Warning">>,
     <<RangeRef("f1", "l1", "l2"), "Critical">>,
     <<RangeRef("f2", "l1", "l1"), "Info">>}

NewComment(id, ref, sev, content) ==
    [id |-> id, line_ref |-> ref, severity |-> sev, content |-> content,
     state |-> "Open"]

\* the comments a caller builds and hands to add
NewComments ==
    {NewComment(id, in[1], in[2], "a") : id \in CommentIds, in \in AddInputs}

\* Comment::file_id
file_id(c) == c.line_ref.file_id

\* Comment::line_ids : one id for a single line, start and end for a range
line_ids(c) == c.line_ref.lines

EmptyMap == [x \in {} |-> <<>>]

\* the sum of a function's values
RECURSIVE SumLens(_)
SumLens(f) ==
    IF DOMAIN f = {} THEN 0
    ELSE LET k == CHOOSE x \in DOMAIN f : TRUE IN
         f[k] + SumLens([x \in DOMAIN f \ {k} |-> f[x]])

\* CommentIndex::new
NewIndex == [by_line |-> EmptyMap, by_file |-> EmptyMap, by_severity |-> EmptyMap]

\* map.entry(k).or_default().push(id)
EntryPush(m, k, id) ==
    IF k \in DOMAIN m
    THEN [m EXCEPT ![k] = Append(@, id)]
    ELSE [x \in (DOMAIN m) \cup {k} |-> IF x = k THEN <<id>> ELSE m[x]]

\* if let Some(ids) = map.get_mut(k) { ids.retain(..); if ids.is_empty() { map.remove(k) } }
EntryRetainKeepEmpty(m, k, id) ==
    IF k \in DOMAIN m THEN [m EXCEPT ![k] = Retain(@, id)] ELSE m

EntryRetain(m, k, id) ==
    IF k \in DOMAIN m
    THEN IF Retain(m[k], id) = <<>>
         THEN MapRemove(m, k)
         ELSE [m EXCEPT ![k] = Retain(@, id)]
    ELSE m

RECURSIVE PushLines(_, _, _)
PushLines(m, ls, id) ==
    IF ls = <<>> THEN m
    ELSE PushLines(EntryPush(m, Head(ls), id), Tail(ls), id)

RECURSIVE RetainLines(_, _, _)
RetainLines(m, ls, id) ==
    IF ls = <<>> THEN m
    ELSE RetainLines(EntryRetain(m, Head(ls), id), Tail(ls), id)

\* CommentIndex::add
IndexAdd(idx, c) ==
    [by_line     |-> PushLines(idx.by_line, line_ids(c), c.id),
     by_file     |-> EntryPush(idx.by_file, file_id(c), c.id),
     by_severity |-> EntryPush(idx.by_severity, c.severity, c.id)]

IndexRemoveLinesOnly(idx, c) ==
    [by_line     |-> RetainLines(idx.by_line, line_ids(c), c.id),
     by_file     |-> idx.by_file,
     by_severity |-> idx.by_severity]

\* CommentIndex::remove
IndexRemove(idx, c) ==
    [by_line     |-> RetainLines(idx.by_line, line_ids(c), c.id),
     by_file     |-> EntryRetain(idx.by_file, file_id(c), c.id),
     by_severity |-> EntryRetain(idx.by_severity, c.severity, c.id)]

\* CommentIndex::get_by_line / get_by_file / get_by_severity
IndexGet(m, k) == IF k \in DOMAIN m THEN m[k] ELSE <<>>

\* CommentManager::new
CmInit ==
    /\ comments = [x \in {} |-> 0]
    /\ index = NewIndex
    /\ cm_op = "new"
    /\ cm_arg = 0
    /\ cm_result = "Ok"

\* add, were it to index the comment before it looks for the id
AddIndexesFirst(c) ==
    /\ UNCHANGED notCmVars
    /\ cm_op' = "add"
    /\ cm_arg' = c.id
    /\ index' = IndexAdd(index, c)
    /\ IF c.id \in DOMAIN comments
       THEN /\ cm_result' = "Validation"
            /\ UNCHANGED comments
       ELSE /\ comments' = [x \in (DOMAIN comments) \cup {c.id} |->
                               IF x = c.id THEN c ELSE comments[x]]
            /\ cm_result' = "Ok"

\* CommentManager::add
Add(c) ==
    /\ UNCHANGED notCmVars
    /\ cm_op' = "add"
    /\ cm_arg' = c.id
    /\ IF c.id \in DOMAIN comments
       THEN /\ cm_result' = "Validation"
            /\ UNCHANGED <<comments, index>>
       ELSE /\ index' = IndexAdd(index, c)
            /\ comments' = [x \in (DOMAIN comments) \cup {c.id} |->
                               IF x = c.id THEN c ELSE comments[x]]
            /\ cm_result' = "Ok"

\* CommentManager::update
Update(id, content) ==
    /\ UNCHANGED notCmVars
    /\ cm_op' = "update"
    /\ cm_arg' = id
    /\ IF id \notin DOMAIN comments
       THEN /\ cm_result' = "CommentNotFound"
            /\ UNCHANGED <<comments, index>>
       ELSE /\ comments' = [comments EXCEPT ![id].content = content]
            /\ cm_result' = "Ok"
            /\ UNCHANGED index

\* CommentManager::update_state
UpdateState(id, state) ==
    /\ UNCHANGED notCmVars
    /\ cm_op' = "update_state"
    /\ cm_arg' = id
    /\ IF id \notin DOMAIN comments
       THEN /\ cm_result' = "CommentNotFound"
            /\ UNCHANGED <<comments, index>>
       ELSE /\ comments' = [comments EXCEPT ![id].state = state]
            /\ cm_result' = "Ok"
            /\ UNCHANGED index

\* CommentManager::delete
Delete(id) ==
    /\ UNCHANGED notCmVars
    /\ cm_op' = "delete"
    /\ cm_arg' = id
    /\ IF id \notin DOMAIN comments
       THEN /\ cm_result' = "CommentNotFound"
            /\ UNCHANGED <<comments, index>>
       ELSE /\ comments' = MapRemove(comments, id)
            /\ index' = IndexRemove(index, comments[id])
            /\ cm_result' = "Ok"

\* the loop of delete_by_file over the ids the file bucket held
RECURSIVE DeleteAll(_, _, _)
DeleteAll(cs, idx, ids) ==
    IF ids = <<>> THEN [comments |-> cs, index |-> idx]
    ELSE IF Head(ids) \in DOMAIN cs
         THEN DeleteAll(MapRemove(cs, Head(ids)),
                        IndexRemove(idx, cs[Head(ids)]), Tail(ids))
         ELSE DeleteAll(cs, idx, Tail(ids))

\* CommentManager::delete_by_file
DeleteByFile(f) ==
    LET ids == IndexGet(index.by_file, f)
        r == DeleteAll(comments, index, ids)
    IN /\ UNCHANGED notCmVars
       /\ cm_op' = "delete_by_file"
       /\ cm_arg' = f
       /\ comments' = r.comments
       /\ index' = r.index
       /\ cm_result' = Len(ids)

\* CommentIndex::has_comments_on_line
has_comments_on_line(idx, l) ==
    IF l \in DOMAIN idx.by_line THEN idx.by_line[l] # <<>> ELSE FALSE

\* the entries of all the buckets of a map
MaxIndexed == 2
Indexed(m) == SumLens([k \in DOMAIN m |-> Len(m[k])])

\* CommentIndex::add called on the index itself, with any comment
IndexAddCall(c) ==
    /\ Indexed(index.by_file) < MaxIndexed
    /\ Indexed(index.by_severity) < MaxIndexed
    /\ Indexed(index.by_line) < 2 * MaxIndexed
    /\ index' = IndexAdd(index, c)
    /\ cm_op' = "index_add"
    /\ cm_arg' = c.id
    /\ cm_result' = "Ok"
    /\ UNCHANGED <<comments, notCmVars>>

\* CommentIndex::remove called on the index itself, with any comment
IndexRemoveCall(c) ==
    /\ index' = IndexRemove(index, c)
    /\ cm_op' = "index_remove"
    /\ cm_arg' = c.id
    /\ cm_result' = "Ok"
    /\ UNCHANGED <<comments, notCmVars>>

IndexNext ==
    \/ \E c \in NewComments : IndexAddCall(c)
    \/ \E c \in NewComments : IndexRemoveCall(c)

(***************************************************************************)
(* The serialized form of a Session (serde_json): strings and objects.     *)
(* An enum is written externally tagged: a unit variant as its name, a     *)
(* struct variant as an object with the one key of its name.               *)
(***************************************************************************)
JStr(s) == [t |-> "str", v |-> s]
JObj(f) == [t |-> "obj", v |-> f]
JTagged(tag, fields) == JObj([x \in {tag} |-> JObj(fields)])
JTag(j) == CHOOSE k \in DOMAIN j.v : TRUE

\* the diff sources a session is created from
DiffSources ==
    {[kind |-> "WorkingTree"],
     [kind |-> "Commit", commit |-> "abc"],
     [kind |-> "Branch", branch |-> "abc"],
     [kind |-> "CommitRange", from |-> "abc", to |-> "def"]}

\* Serialize for DiffSource
diff_source_to_json(d) ==
    CASE d.kind = "Commit" -> JTagged("Commit", [commit |-> JStr(d.commit)])
      [] d.kind = "Branch" -> JTagged("Branch", [branch |-> JStr(d.branch)])
      [] d.kind = "CommitRange" ->
            JTagged("CommitRange", [from |-> JStr(d.from), to |-> JStr(d.to)])
      [] OTHER -> JStr(d.kind)

\* Deserialize for DiffSource
diff_source_from_json(j) ==
    IF j.t = "str" THEN [kind |-> j.v]
    ELSE LET f == j.v[JTag(j)].v IN
         CASE JTag(j) = "Commit" -> [kind |-> "Commit", commit |-> f.commit.v]
           [] JTag(j) = "Branch" -> [kind |-> "Branch", branch |-> f.branch.v]
           [] OTHER -> [kind |-> "CommitRange", from |-> f.from.v, to |-> f.to.v]

\* Serialize for LineReference
line_ref_to_json(r) ==
    IF r.kind = "SingleLine"
    THEN JTagged("SingleLine", [file_id |-> JStr(r.file_id), line_id |-> JStr(r.lines[1])])
    ELSE JTagged("Range", [file_id |-> JStr(r.file_id),
                           start_line_id |-> JStr(r.lines[1]),
                           end_line_id |-> JStr(r.lines[2])])

\* Deserialize for LineReference
line_ref_from_json(j) ==
    LET f == j.v[JTag(j)].v IN
    IF JTag(j) = "SingleLine"
    THEN SingleLine(f.file_id.v, f.line_id.v)
    ELSE RangeRef(f.file_id.v, f.start_line_id.v, f.end_line_id.v)

\* Serialize for Comment
comment_to_json(c) ==
    JObj([id |-> c.id, line_ref |-> line_ref_to_json(c.line_ref),
          content |-> JStr(c.content), severity |-> JStr(c.severity),
          state |-> JStr(c.state)])

\* Deserialize for Comment
comment_from_json(j) ==
    [id |-> j.v.id, line_ref |-> line_ref_from_json(j.v.line_ref),
     severity |-> j.v.severity.v, content |-> j.v.content.v, state |-> j.v.state.v]

\* Serialize for CommentManager: the comments; the index is skipped
manager_to_json(cs) ==
    JObj([comments |-> JObj([id \in DOMAIN cs |-> comment_to_json(cs[id])])])

\* the orders in which a HashMap yields its values
ValueOrders(cs) ==
    {o \in [1..Cardinality(DOMAIN cs) -> DOMAIN cs] :
        \A i, j \in DOMAIN o : o[i] = o[j] => i = j}

RECURSIVE rebuild_loop(_, _, _, _)
rebuild_loop(idx, cs, o, i) ==
    IF i > Len(o) THEN idx
    ELSE rebuild_loop(IndexAdd(idx, cs[o[i]]), cs, o, i + 1)

\* CommentManager::rebuild_index, the values coming in the order o
rebuild_index(cs, o) == rebuild_loop(NewIndex, cs, o, 1)

\* a deserialization that leaves the index as CommentIndex::new made it
manager_from_json_no_rebuild(j, o) ==
    LET cs == [id \in DOMAIN j.v.comments.v |-> comment_from_json(j.v.comments.v[id])]
    IN [comments |-> cs, index |-> NewIndex]

\* Deserialize for CommentManager
manager_from_json(j, o) ==
    LET cs == [id \in DOMAIN j.v.comments.v |-> comment_from_json(j.v.comments.v[id])]
    IN [comments |-> cs, index |-> rebuild_index(cs, o)]

\* Serialize for Session
session_to_json(session) ==
    JObj([id |-> JStr(session.id),
          diff_source |-> diff_source_to_json(session.diff_source),
          comments |-> manager_to_json(session.comments)])

\* Deserialize for Session
session_from_json(j, o) ==
    [id |-> j.v.id.v,
     diff_source |-> diff_source_from_json(j.v.diff_source),
     comments |-> manager_from_json(j.v.comments, o)]

\* CommentManager::count
count(cs) == Cardinality(DOMAIN cs)

\* CommentManager::count_by_severity: an entry for each severity in use
count_by_severity(cs) ==
    [s \in {cs[id].severity : id \in DOMAIN cs} |->
        Cardinality({id \in DOMAIN cs : cs[id].severity = s})]

\* the session is written with serde_json and read back; the program goes on
\* with what it read
RoundTrip(o) ==
    LET j == session_to_json([id |-> mem.id, diff_source |-> mem.diff_source,
                              comments |-> comments])
        read == session_from_json(j, o)
    IN /\ mem' = [id |-> read.id, diff_source |-> read.diff_source]
       /\ comments' = read.comments.comments
       /\ index' = read.comments.index
       /\ cm_op' = "deserialize"
       /\ cm_arg' = 0
       /\ cm_result' = "Ok"
       /\ UNCHANGED <<navVars, fsVars, disk, env_op, load_ret, mgrVars, parseVars,
                      raceVars, exportVars, tuiVars>>

\* CommentManager::get_by_severity: the stored comments of the ids the index
\* lists under the severity
get_by_severity(cs, ix, s) ==
    LET ids == IndexGet(ix.by_severity, s)
        RECURSIVE filter_map(_)
        filter_map(i) ==
            IF i > Len(ids) THEN <<>>
            ELSE (IF ids[i] \in DOMAIN cs THEN <<cs[ids[i]]>> ELSE <<>>)
                 \o filter_map(i + 1)
    IN filter_map(1)

\* manager.get_mut(&id) followed by Comment::set_severity on what it returns;
\* get_mut returns None for an id that is not stored
SetSeverity(id, s) ==
    /\ id \in DOMAIN comments
    /\ comments' = [comments EXCEPT ![id].severity = s]
    /\ cm_op' = "set_severity"
    /\ cm_arg' = id
    /\ cm_result' = "unit"
    /\ UNCHANGED <<index, notCmVars>>

CmNext ==
    \/ \E c \in NewComments : Add(c)
    \/ \E id \in CommentIds, t \in Contents : Update(id, t)
    \/ \E id \in CommentIds, s \in CommentState : UpdateState(id, s)
    \/ \E id \in CommentIds : Delete(id)
    \/ \E f \in FileIds : DeleteByFile(f)


(***************************************************************************)
(* Diff navigator (cr-core/src/diff/navigator.rs)                          *)
(*                                                                         *)
(* A diff is a sequence of files, a file a sequence of hunks, and a hunk   *)
(* is modelled by its number of lines: the navigator reads nothing else.   *)
(* Indexes are 0-based as in the source; sequences are 1-based.            *)
(***************************************************************************)
MaxFiles == 2
MaxOffset == 3
MaxMove == 2

\* the files a diff is built from: no hunk (a binary or lazy file), an empty
\* hunk, one hunk, several hunks
FileShapes == {<<>>, <<0>>, <<2>>, <<1, 2>>, <<2, 0>>, <<1, 0, 2>>}

Diffs == UNION {[1..n -> FileShapes] : n \in 0..MaxFiles}

RECURSIVE SumSeq(_)
SumSeq(s) == IF s = <<>> THEN 0 ELSE Head(s) + SumSeq(Tail(s))

\* FileDiff::total_lines
total_lines(file) == SumSeq(file)

\* usize::saturating_sub
saturating_sub(a, b) == IF a > b THEN a - b ELSE 0

\* Position::new
NewPosition == [file_idx |-> 0, hunk_idx |-> 0, line_idx |-> 0]

Moved(p) == [pos |-> p, ret |-> TRUE]
Stayed(p) == [pos |-> p, ret |-> FALSE]

\* DiffNavigator::current_file, current_hunk: is there one
has_current_file(d, p) == p.file_idx < Len(d)
current_file(d, p) == d[p.file_idx + 1]
has_current_hunk(d, p) ==
    has_current_file(d, p) /\ p.hunk_idx < Len(current_file(d, p))
current_hunk_len(d, p) == current_file(d, p)[p.hunk_idx + 1]
has_current_line(d, p) ==
    has_current_hunk(d, p) /\ p.line_idx < current_hunk_len(d, p)

next_file_wraps(d, p) ==
    IF Len(d) > 0
    THEN Moved([file_idx |-> (p.file_idx + 1) % Len(d), hunk_idx |-> 0, line_idx |-> 0])
    ELSE Stayed(p)

\* DiffNavigator::next_file
next_file(d, p) ==
    IF p.file_idx + 1 < Len(d)
    THEN Moved([file_idx |-> p.file_idx + 1, hunk_idx |-> 0, line_idx |-> 0])
    ELSE Stayed(p)

\* DiffNavigator::prev_file
prev_file(d, p) ==
    IF p.file_idx > 0
    THEN Moved([file_idx |-> p.file_idx - 1, hunk_idx |-> 0, line_idx |-> 0])
    ELSE Stayed(p)

\* DiffNavigator::next_hunk
next_hunk(d, p) ==
    IF has_current_file(d, p) /\ p.hunk_idx + 1 < Len(current_file(d, p))
    THEN Moved([p EXCEPT !.hunk_idx = p.hunk_idx + 1, !.line_idx = 0])
    ELSE LET r == next_file(d, p)
         IN IF r.ret
            THEN Moved([r.pos EXCEPT !.hunk_idx = 0, !.line_idx = 0])
            ELSE Stayed(r.pos)

\* prev_hunk, were it to stay on hunk 0 of the previous file
prev_hunk_first(d, p) ==
    IF p.hunk_idx > 0
    THEN Moved([p EXCEPT !.hunk_idx = p.hunk_idx - 1, !.line_idx = 0])
    ELSE LET old_file == p.file_idx
             r == prev_file(d, p)
         IN IF r.ret
            THEN Moved([r.pos EXCEPT !.line_idx = 0])
            ELSE Stayed([r.pos EXCEPT !.file_idx = old_file])

\* DiffNavigator::prev_hunk
prev_hunk(d, p) ==
    IF p.hunk_idx > 0
    THEN Moved([p EXCEPT !.hunk_idx = p.hunk_idx - 1, !.line_idx = 0])
    ELSE LET old_file == p.file_idx
             r == prev_file(d, p)
             q == IF has_current_file(d, r.pos)
                  THEN [r.pos EXCEPT
                          !.hunk_idx = saturating_sub(Len(current_file(d, r.pos)), 1)]
                  ELSE r.pos
         IN IF r.ret
            THEN Moved([q EXCEPT !.line_idx = 0])
            ELSE Stayed([r.pos EXCEPT !.file_idx = old_file])

\* DiffNavigator::next_line
next_line(d, p) ==
    IF has_current_hunk(d, p) /\ p.line_idx + 1 < current_hunk_len(d, p)
    THEN Moved([p EXCEPT !.line_idx = p.line_idx + 1])
    ELSE LET r == next_hunk(d, p)
         IN IF r.ret
            THEN Moved([r.pos EXCEPT !.line_idx = 0])
            ELSE Stayed(r.pos)

\* DiffNavigator::prev_line
prev_line(d, p) ==
    IF p.line_idx > 0
    THEN Moved([p EXCEPT !.line_idx = p.line_idx - 1])
    ELSE LET old_hunk == p.hunk_idx
             r == prev_hunk(d, p)
             q == IF has_current_hunk(d, r.pos)
                  THEN [r.pos EXCEPT
                          !.line_idx = saturating_sub(current_hunk_len(d, r.pos), 1)]
                  ELSE r.pos
         IN IF r.ret
            THEN Moved(q)
            ELSE Stayed([r.pos EXCEPT !.hunk_idx = old_hunk])

\* DiffNavigator::goto_file
goto_file(d, p, f) ==
    IF f < Len(d)
    THEN Moved([file_idx |-> f, hunk_idx |-> 0, line_idx |-> 0])
    ELSE Stayed(p)

\* the loop of goto_line: from hunk h (1-based) with current_line lines passed
RECURSIVE goto_line_scan(_, _, _, _, _)
goto_line_scan(file, p, k, h, current_line) ==
    IF h > Len(file) THEN Stayed(p)
    ELSE IF current_line + file[h] > k
         THEN Moved([p EXCEPT !.hunk_idx = h - 1, !.line_idx = k - current_line])
         ELSE goto_line_scan(file, p, k, h + 1, current_line + file[h])

\* DiffNavigator::goto_line
goto_line(d, p, f, k) ==
    LET r == goto_file(d, p, f)
    IN IF ~r.ret THEN Stayed(r.pos)
       ELSE goto_line_scan(d[f + 1], r.pos, k, 1, 0)

\* DiffNavigator::goto_top
goto_top(d, p) == NewPosition

\* DiffNavigator::goto_bottom
goto_bottom(d, p) ==
    IF Len(d) = 0 THEN p
    ELSE LET p1 == [p EXCEPT !.file_idx = Len(d) - 1]
             file == current_file(d, p1)
             p2 == [p1 EXCEPT !.hunk_idx = Len(file) - 1]
         IN IF Len(file) = 0 THEN p1
            ELSE [p2 EXCEPT !.line_idx = saturating_sub(current_hunk_len(d, p2), 1)]

\* DiffNavigator::move_down
RECURSIVE move_down(_, _, _)
move_down(d, p, n) ==
    IF n = 0 THEN p
    ELSE LET r == next_line(d, p)
         IN IF r.ret THEN move_down(d, r.pos, n - 1) ELSE r.pos

\* DiffNavigator::move_up
RECURSIVE move_up(_, _, _)
move_up(d, p, n) ==
    IF n = 0 THEN p
    ELSE LET r == prev_line(d, p)
         IN IF r.ret THEN move_up(d, r.pos, n - 1) ELSE r.pos

\* the hunks of the current file before the current one
RECURSIVE hunks_before(_, _, _)
hunks_before(file, p, h) ==
    IF h > Len(file) THEN 0
    ELSE IF h - 1 < p.hunk_idx THEN file[h] + hunks_before(file, p, h + 1)
    ELSE IF h - 1 = p.hunk_idx THEN p.line_idx
    ELSE 0

global_line_index_no_hunks(d, p) ==
    SumSeq([i \in 1..(IF p.file_idx < Len(d) THEN p.file_idx ELSE Len(d)) |->
               total_lines(d[i])])
    + (IF has_current_hunk(d, p) THEN p.line_idx ELSE 0)

\* DiffNavigator::global_line_index
global_line_index(d, p) ==
    SumSeq([i \in 1..(IF p.file_idx < Len(d) THEN p.file_idx ELSE Len(d)) |->
               total_lines(d[i])])
    + (IF has_current_file(d, p) THEN hunks_before(current_file(d, p), p, 1) ELSE 0)

Call(name) == [name |-> name, f |-> 0, k |-> 0]
BoolRet(b) == IF b THEN "true" ELSE "false"

\* DiffNavigator::new
NavInit ==
    /\ diff \in Diffs
    /\ position = NewPosition
    /\ nav_op = Call("new")
    /\ nav_ret = "unit"

\* a call of one of the transitions without argument
Step(name, r) ==
    /\ nav_op' = Call(name)
    /\ position' = r.pos
    /\ nav_ret' = BoolRet(r.ret)
    /\ UNCHANGED <<diff, notNavVars>>

NextLine == Step("next_line", next_line(diff, position))
PrevLine == Step("prev_line", prev_line(diff, position))
NextHunk == Step("next_hunk", next_hunk(diff, position))
PrevHunk == Step("prev_hunk", prev_hunk(diff, position))
NextFile == Step("next_file", next_file(diff, position))
PrevFile == Step("prev_file", prev_file(diff, position))

GotoFile(f) ==
    LET r == goto_file(diff, position, f)
    IN /\ nav_op' = [name |-> "goto_file", f |-> f, k |-> 0]
       /\ position' = r.pos
       /\ nav_ret' = BoolRet(r.ret)
       /\ UNCHANGED <<diff, notNavVars>>

GotoLine(f, k) ==
    LET r == goto_line(diff, position, f, k)
    IN /\ nav_op' = [name |-> "goto_line", f |-> f, k |-> k]
       /\ position' = r.pos
       /\ nav_ret' = BoolRet(r.ret)
       /\ UNCHANGED <<diff, notNavVars>>

GotoTop ==
    /\ nav_op' = Call("goto_top")
    /\ position' = goto_top(diff, position)
    /\ nav_ret' = "unit"
    /\ UNCHANGED <<diff, notNavVars>>

GotoBottom ==
    /\ nav_op' = Call("goto_bottom")
    /\ position' = goto_bottom(diff, position)
    /\ nav_ret' = "unit"
    /\ UNCHANGED <<diff, notNavVars>>

MoveDown(n) ==
    /\ nav_op' = [name |-> "move_down", f |-> 0, k |-> n]
    /\ position' = move_down(diff, position, n)
    /\ nav_ret' = "unit"
    /\ UNCHANGED <<diff, notNavVars>>

MoveUp(n) ==
    /\ nav_op' = [name |-> "move_up", f |-> 0, k |-> n]
    /\ position' = move_up(diff, position, n)
    /\ nav_ret' = "unit"
    /\ UNCHANGED <<diff, notNavVars>>

NavNext ==
    \/ NextLine
    \/ PrevLine
    \/ NextHunk
    \/ PrevHunk
    \/ NextFile
    \/ PrevFile
    \/ \E f \in 0..MaxFiles : GotoFile(f)
    \/ \E f \in 0..MaxFiles, k \in 0..MaxOffset : GotoLine(f, k)
    \/ GotoTop
    \/ GotoBottom
    \/ \E n \in 0..MaxMove : MoveDown(n)
    \/ \E n \in 0..MaxMove : MoveUp(n)

(***************************************************************************)
(* FileSystemStorage (cr-storage/src/session_store.rs), one session id     *)
(*                                                                         *)
(* The sessions directory holds at most two entries for the id: the final  *)
(* file <id>.json and the temp file .<id>.json.tmp, the same path for      *)
(* every save call.  A file is an inode; a directory entry names one.  The *)
(* BufWriter hands the serialized envelope to the file in NChunks writes,  *)
(* the last of them in flush().  The envelope of the n-th save call is the *)
(* chunks <<n, 1>> .. <<n, NChunks>>.                                      *)
(***************************************************************************)
MaxSaves == 3
NChunks == 2

\* the bytes of envelope v, as the chunks written one by one
Envelope(v) == [i \in 1..NChunks |-> <<v, i>>]

\* what a write past the end of a truncated file leaves in between
Hole == <<0, 0>>

\* write(2) of one chunk at chunk offset off
WriteAt(content, off, chunk) ==
    [i \in 1..(IF off + 1 > Len(content) THEN off + 1 ELSE Len(content)) |->
        IF i = off + 1 THEN chunk
        ELSE IF i <= Len(content) THEN content[i]
        ELSE Hole]

\* serde_json::from_reader: only a whole envelope parses
Parses(buf) == \E v \in 1..MaxSaves : buf = Envelope(v)

FsInit(writers) ==
    /\ fs_inodes = <<>>
    /\ fs_temp = 0
    /\ fs_final = 0
    /\ w_pc = [w \in writers |-> "idle"]
    /\ w_fd = [w \in writers |-> 0]
    /\ w_off = [w \in writers |-> 0]
    /\ w_env = [w \in writers |-> 0]
    /\ w_result = [w \in writers |-> "none"]
    /\ next_env = 1
    /\ last_ok = 0
    /\ r_pc = "idle"
    /\ r_fd = 0
    /\ r_buf = <<>>
    /\ r_result = "none"

rdVars == <<r_pc, r_fd, r_buf, r_result>>

\* SessionStorage::save -> atomic_write, up to SessionFile::new (line 79)
SaveBegin(w) ==
    /\ w_pc[w] = "idle"
    /\ next_env <= MaxSaves
    /\ w_pc' = [w_pc EXCEPT ![w] = "create"]
    /\ w_env' = [w_env EXCEPT ![w] = next_env]
    /\ w_result' = [w_result EXCEPT ![w] = "none"]
    /\ next_env' = next_env + 1
    /\ UNCHANGED <<fs_inodes, fs_temp, fs_final, w_fd, w_off, last_ok, rdVars, notFsVars>>

\* returning Err from atomic_write
Fails(w) ==
    /\ w_pc' = [w_pc EXCEPT ![w] = "idle"]
    /\ w_result' = [w_result EXCEPT ![w] = "Err"]

CreateInPlace(w) ==
    /\ w_pc[w] = "create"
    /\ IF fs_final = 0
       THEN /\ fs_inodes' = Append(fs_inodes, <<>>)
            /\ fs_final' = Len(fs_inodes) + 1
            /\ w_fd' = [w_fd EXCEPT ![w] = Len(fs_inodes) + 1]
       ELSE /\ fs_inodes' = [fs_inodes EXCEPT ![fs_final] = <<>>]
            /\ w_fd' = [w_fd EXCEPT ![w] = fs_final]
            /\ UNCHANGED fs_final
    /\ w_off' = [w_off EXCEPT ![w] = 0]
    /\ w_pc' = [w_pc EXCEPT ![w] = IF NChunks > 1 THEN "write" ELSE "flush"]
    /\ UNCHANGED <<fs_temp, w_env, w_result, next_env, last_ok, rdVars, notFsVars>>

\* fs::File::create(&temp_path): creates the temp file, or truncates the one
\* that is there
CreateTemp(w) ==
    /\ w_pc[w] = "create"
    /\ IF fs_temp = 0
       THEN /\ fs_inodes' = Append(fs_inodes, <<>>)
            /\ fs_temp' = Len(fs_inodes) + 1
            /\ w_fd' = [w_fd EXCEPT ![w] = Len(fs_inodes) + 1]
       ELSE /\ fs_inodes' = [fs_inodes EXCEPT ![fs_temp] = <<>>]
            /\ w_fd' = [w_fd EXCEPT ![w] = fs_temp]
            /\ UNCHANGED fs_temp
    /\ w_off' = [w_off EXCEPT ![w] = 0]
    /\ w_pc' = [w_pc EXCEPT ![w] = IF NChunks > 1 THEN "write" ELSE "flush"]
    /\ UNCHANGED <<fs_final, w_env, w_result, next_env, last_ok, rdVars, notFsVars>>

\* fs::File::create fails: `?` returns the error
CreateFail(w) ==
    /\ w_pc[w] = "create"
    /\ Fails(w)
    /\ UNCHANGED <<fs_inodes, fs_temp, fs_final, w_fd, w_off, w_env, next_env,
                   last_ok, rdVars, notFsVars>>

\* serde_json::to_writer_pretty: the BufWriter writes a full buffer to the file
WriteChunk(w) ==
    /\ w_pc[w] = "write"
    /\ fs_inodes' = [fs_inodes EXCEPT ![w_fd[w]] =
                        WriteAt(@, w_off[w], <<w_env[w], w_off[w] + 1>>)]
    /\ w_off' = [w_off EXCEPT ![w] = @ + 1]
    /\ w_pc' = [w_pc EXCEPT ![w] = IF w_off[w] + 2 < NChunks THEN "write" ELSE "flush"]
    /\ UNCHANGED <<fs_temp, fs_final, w_fd, w_env, w_result, next_env, last_ok,
                   rdVars, notFsVars>>

\* serde_json::to_writer_pretty fails: `?` returns the error (line 89)
SerializeFail(w) ==
    /\ w_pc[w] = "write"
    /\ Fails(w)
    /\ UNCHANGED <<fs_inodes, fs_temp, fs_final, w_fd, w_off, w_env, next_env,
                   last_ok, rdVars, notFsVars>>

\* writer.flush(): the rest of the buffer goes to the file
Flush(w) ==
    /\ w_pc[w] = "flush"
    /\ fs_inodes' = [fs_inodes EXCEPT ![w_fd[w]] =
                        WriteAt(@, w_off[w], <<w_env[w], w_off[w] + 1>>)]
    /\ w_off' = [w_off EXCEPT ![w] = @ + 1]
    /\ w_pc' = [w_pc EXCEPT ![w] = "rename"]
    /\ UNCHANGED <<fs_temp, fs_final, w_fd, w_env, w_result, next_env, last_ok,
                   rdVars, notFsVars>>

\* writer.flush() fails: `?` returns the error (line 90)
FlushFail(w) ==
    /\ w_pc[w] = "flush"
    /\ Fails(w)
    /\ UNCHANGED <<fs_inodes, fs_temp, fs_final, w_fd, w_off, w_env, next_env,
                   last_ok, rdVars, notFsVars>>

\* fs::rename(&temp_path, &final_path) succeeds: the final path names the
\* temp file's inode, the temp path is gone
Rename(w) ==
    /\ w_pc[w] = "rename"
    /\ fs_temp # 0
    /\ fs_final' = fs_temp
    /\ fs_temp' = 0
    /\ w_pc' = [w_pc EXCEPT ![w] = "idle"]
    /\ w_result' = [w_result EXCEPT ![w] = "Ok"]
    /\ last_ok' = w_env[w]
    /\ UNCHANGED <<fs_inodes, w_fd, w_off, w_env, next_env, rdVars, notFsVars>>

\* fs::rename fails (always when the temp path is gone): the closure removes
\* the temp file and the error is returned
RenameFail(w) ==
    /\ w_pc[w] = "rename"
    /\ fs_temp' = 0
    /\ Fails(w)
    /\ UNCHANGED <<fs_inodes, fs_final, w_fd, w_off, w_env, next_env, last_ok,
                   rdVars, notFsVars>>

wrVars == <<fs_inodes, fs_temp, fs_final, w_pc, w_fd, w_off, w_env, w_result,
            next_env, last_ok>>

\* SessionStorage::load -> read_session: fs::File::open(path)
LoadOpen ==
    /\ r_pc = "idle"
    /\ IF fs_final = 0
       THEN /\ r_result' = "SessionNotFound"
            /\ UNCHANGED <<r_pc, r_fd, r_buf>>
       ELSE /\ r_pc' = "read"
            /\ r_fd' = fs_final
            /\ r_buf' = <<>>
            /\ r_result' = "none"
    /\ UNCHANGED <<wrVars, notFsVars>>

\* serde_json::from_reader: the BufReader reads the next chunk of the file
LoadRead ==
    /\ r_pc = "read"
    /\ Len(r_buf) < Len(fs_inodes[r_fd])
    /\ r_buf' = Append(r_buf, fs_inodes[r_fd][Len(r_buf) + 1])
    /\ UNCHANGED <<r_pc, r_fd, r_result, wrVars, notFsVars>>

\* serde_json::from_reader at the end of the file: a session, or a parse error
LoadEnd ==
    /\ r_pc = "read"
    /\ Len(r_buf) >= Len(fs_inodes[r_fd])
    /\ r_pc' = "idle"
    /\ r_result' = IF Parses(r_buf) THEN "Ok" ELSE "Json"
    /\ UNCHANGED <<r_fd, r_buf, wrVars, notFsVars>>

FsNext ==
    \/ \E w \in DOMAIN w_pc : SaveBegin(w)
    \/ \E w \in DOMAIN w_pc : CreateTemp(w)
    \/ \E w \in DOMAIN w_pc : CreateFail(w)
    \/ \E w \in DOMAIN w_pc : WriteChunk(w)
    \/ \E w \in DOMAIN w_pc : SerializeFail(w)
    \/ \E w \in DOMAIN w_pc : Flush(w)
    \/ \E w \in DOMAIN w_pc : FlushFail(w)
    \/ \E w \in DOMAIN w_pc : Rename(w)
    \/ \E w \in DOMAIN w_pc : RenameFail(w)
    \/ LoadOpen
    \/ LoadRead
    \/ LoadEnd

(***************************************************************************)
(* The stored envelope (cr-core/src/session/migration.rs) and a load or a  *)
(* save of it as a whole (cr-storage/src/session_store.rs)                 *)
(*                                                                         *)
(* A string is a sequence of characters.  A session is modelled by its     *)
(* revision, which touch() advances.                                       *)
(***************************************************************************)
MaxVerLen == 4
MaxRev == 2

Digits == {"0", "1", "2"}
VerChars == Digits \cup {".", "+", "x"}
VerStrings == UNION {[1..n -> VerChars] : n \in 0..MaxVerLen}

\* the top-level fields of an envelope that this binary does not know
ExtraMaps == {[x \in {} |-> 0], [x \in {"future_field"} |-> "some value"]}

NoFile == [none |-> "file"]
NoSession == [none |-> "session"]

\* CURRENT_SCHEMA_VERSION
CURRENT_SCHEMA_VERSION == <<"1", ".", "0">>

\* ProtocolVersion::V1_0
V1_0 == [major |-> 1, minor |-> 0]

NoVersion == [none |-> "version"]

DigitValue(c) == CASE c = "0" -> 0 [] c = "1" -> 1 [] c = "2" -> 2

RECURSIVE DecimalValue(_)
DecimalValue(s) ==
    IF s = <<>> THEN 0
    ELSE 10 * DecimalValue(SubSeq(s, 1, Len(s) - 1)) + DigitValue(s[Len(s)])

\* str::parse::<u32>: an optional '+', then one digit or more (no string of
\* MaxVerLen digits overflows a u32); -1 for Err
ParseU32(s) ==
    LET t == IF s # <<>> /\ Head(s) = "+" THEN Tail(s) ELSE s
    IN IF t # <<>> /\ \A i \in DOMAIN t : t[i] \in Digits
       THEN DecimalValue(t)
       ELSE -1

\* str::split('.'): the pieces between the dots
RECURSIVE SplitDots(_, _)
SplitDots(s, piece) ==
    IF s = <<>> THEN <<piece>>
    ELSE IF Head(s) = "." THEN <<piece>> \o SplitDots(Tail(s), <<>>)
    ELSE SplitDots(Tail(s), Append(piece, Head(s)))

\* SessionFile::parse_version
parse_version(file) ==
    LET parts == SplitDots(file.schema_version, <<>>)
    IN IF Len(parts) # 2 THEN NoVersion
       ELSE IF ParseU32(parts[1]) < 0 \/ ParseU32(parts[2]) < 0 THEN NoVersion
       ELSE [major |-> ParseU32(parts[1]), minor |-> ParseU32(parts[2])]

is_compatible_exact(a, b) == a.major = b.major /\ a.minor = b.minor

\* ProtocolVersion::is_compatible
is_compatible(a, b) == a.major = b.major

\* SessionMigrator::needs_migration
needs_migration(file) == file.schema_version # CURRENT_SCHEMA_VERSION

\* SessionMigrator::migrate
migrate(file) ==
    LET version == parse_version(file)
    IN IF version = NoVersion THEN [tag |-> "Validation"]
       ELSE IF ~is_compatible(version, V1_0) THEN [tag |-> "Validation"]
       ELSE [tag |-> "Ok", file |-> file]

\* SessionFile::new
NewSessionFile(session) ==
    [schema_version |-> CURRENT_SCHEMA_VERSION, session |-> session,
     extra |-> [x \in {} |-> 0]]

\* SessionFile::into_session
into_session(file) == file.session

\* FileSystemStorage::read_session
read_session(stored) ==
    IF stored = NoFile THEN [tag |-> "SessionNotFound"]
    ELSE LET migrated == IF needs_migration(stored) THEN migrate(stored)
                         ELSE [tag |-> "Ok", file |-> stored]
         IN IF migrated.tag = "Ok"
            THEN [tag |-> "Ok", session |-> into_session(migrated.file)]
            ELSE migrated

\* a sessions directory as this binary may find it: no file for the id, or a
\* file written by this or by another version of the program
EnvInit ==
    /\ disk \in {NoFile} \cup
                [schema_version : VerStrings, session : {[rev |-> 0]},
                 extra : ExtraMaps]
    /\ mem = NoSession
    /\ env_op = "new"
    /\ load_ret = [tag |-> "none"]

\* SessionStorage::load
LoadSession ==
    LET r == read_session(disk)
    IN /\ env_op' = "load"
       /\ load_ret' = r
       /\ mem' = IF r.tag = "Ok" THEN r.session ELSE mem
       /\ UNCHANGED <<disk, notEnvVars>>

\* Session::touch, after an edit of the loaded session
TouchSession ==
    /\ mem # NoSession
    /\ mem.rev < MaxRev
    /\ env_op' = "touch"
    /\ mem' = [rev |-> mem.rev + 1]
    /\ UNCHANGED <<disk, load_ret, notEnvVars>>

\* SessionStorage::save -> atomic_write, all its steps succeeding
SaveSession ==
    /\ mem # NoSession
    /\ env_op' = "save"
    /\ disk' = NewSessionFile(mem)
    /\ UNCHANGED <<mem, load_ret, notEnvVars>>

\* SessionStorage::save -> atomic_write, one of its steps failing
SaveSessionFails ==
    /\ mem # NoSession
    /\ env_op' = "save failed"
    /\ UNCHANGED <<disk, mem, load_ret, notEnvVars>>

EnvNext ==
    \/ LoadSession
    \/ TouchSession
    \/ SaveSession
    \/ SaveSessionFails

(***************************************************************************)
(* SessionManager (cr-core/src/session/manager.rs) over a SessionStorage   *)
(*                                                                         *)
(* A session is its edit count and its updated_at.  The storage is any     *)
(* implementation of the trait: a save either stores the session or fails  *)
(* and stores nothing.                                                     *)
(***************************************************************************)
MaxTime == 3
MaxInterval == 2
MaxEdits == 1

SessionIds == {"s1", "s2"}

\* SessionManager::new, set_auto_save_interval, and a create for each session
MgrInit ==
    /\ now = 0
    /\ last_auto_save = {}
    /\ auto_save_interval \in 1..MaxInterval
    /\ sessions = [s \in SessionIds |-> [edits |-> 0, updated_at |-> 0]]
    /\ storage = [s \in SessionIds |-> [edits |-> 0, updated_at |-> 0]]
    /\ mgr_op = [name |-> "new", session |-> "none"]
    /\ mgr_ret = "unit"
    /\ last_persist = {}

\* time passes
Tick ==
    /\ now < MaxTime
    /\ now' = now + 1
    /\ mgr_op' = [name |-> "tick", session |-> "none"]
    /\ UNCHANGED <<last_auto_save, auto_save_interval, sessions, storage, mgr_ret,
                   last_persist, notMgrVars>>

\* the user edits a session (a comment is added or deleted)
EditSession(s) ==
    /\ sessions[s].edits < MaxEdits
    /\ sessions' = [sessions EXCEPT ![s].edits = @ + 1]
    /\ mgr_op' = [name |-> "edit", session |-> s]
    /\ UNCHANGED <<now, last_auto_save, auto_save_interval, storage, mgr_ret,
                   last_persist, notMgrVars>>

\* Session::touch
touch(session) == [session EXCEPT !.updated_at = now]

\* now.duration_since(last) < self.auto_save_interval
throttled == \E last \in last_auto_save : now - last < auto_save_interval

AutoSaveMarksFailure(s, save_ok) ==
    /\ mgr_op' = [name |-> "auto_save", session |-> s]
    /\ UNCHANGED <<now, auto_save_interval, notMgrVars>>
    /\ IF throttled
       THEN /\ mgr_ret' = "false"
            /\ UNCHANGED <<last_auto_save, sessions, storage, last_persist>>
       ELSE /\ sessions' = [sessions EXCEPT ![s] = touch(@)]
            /\ last_auto_save' = {now}
            /\ IF save_ok
               THEN /\ storage' = [storage EXCEPT ![s] = touch(sessions[s])]
                    /\ mgr_ret' = "true"
                    /\ last_persist' = {[at |-> now, session |-> s]}
               ELSE /\ mgr_ret' = "Err"
                    /\ UNCHANGED <<storage, last_persist>>

\* SessionManager::auto_save, with SessionManager::save inside it; save_ok is
\* whether the storage's save succeeds
AutoSave(s, save_ok) ==
    /\ mgr_op' = [name |-> "auto_save", session |-> s]
    /\ UNCHANGED <<now, auto_save_interval, notMgrVars>>
    /\ IF throttled
       THEN /\ mgr_ret' = "false"
            /\ UNCHANGED <<last_auto_save, sessions, storage, last_persist>>
       ELSE /\ sessions' = [sessions EXCEPT ![s] = touch(@)]
            /\ IF save_ok
               THEN /\ storage' = [storage EXCEPT ![s] = touch(sessions[s])]
                    /\ last_auto_save' = {now}
                    /\ mgr_ret' = "true"
                    /\ last_persist' = {[at |-> now, session |-> s]}
               ELSE /\ mgr_ret' = "Err"
                    /\ UNCHANGED <<storage, last_auto_save, last_persist>>

MgrNext ==
    \/ Tick
    \/ \E s \in SessionIds : EditSession(s)
    \/ \E s \in SessionIds, save_ok \in BOOLEAN : AutoSave(s, save_ok)

(***************************************************************************)
(* The session manager's lifecycle operations over a SessionStorage.       *)
(* The storage is a map from id to the Session saved under it; every       *)
(* operation of the trait that returns a Result may fail with an I/O error *)
(* and then changes nothing.  List is read in whatever order the storage   *)
(* yields (a HashMap's values, a directory's entries).                     *)
(***************************************************************************)
\* the DateTime values a caller passes to clean
MaxBefore == 4

\* Session::with_id
with_id(id) == [id |-> id, created_at |-> now, updated_at |-> now]

\* Session::info
info(session) == [id |-> session.id, updated_at |-> session.updated_at]

\* the orders in which list() may yield the stored sessions
ListOrders(st) ==
    {o \in [1..Cardinality(DOMAIN st) -> DOMAIN st] :
        \A i, j \in DOMAIN o : o[i] = o[j] => i = j}

\* SessionStorage::list in the order o
list(st, o) == [i \in DOMAIN o |-> info(st[o[i]])]

\* a SessionManager call of the lifecycle, with its arguments
SmCall(name, id) == [name |-> name, session |-> id]

SmUnchanged == UNCHANGED <<now, last_auto_save, auto_save_interval, sessions,
                           last_persist, notMgrVars>>

\* create_with_id without the exists check: the save overwrites
CreateWithIdOverwrites(id, save_ok) ==
    /\ mgr_op' = SmCall("create_with_id", id) @@
                     [existed |-> id \in DOMAIN storage, save_ok |-> save_ok]
    /\ SmUnchanged
    /\ IF save_ok
       THEN /\ storage' = [i \in DOMAIN storage \cup {id} |->
                              IF i = id THEN with_id(id) ELSE storage[i]]
            /\ mgr_ret' = [tag |-> "Ok", session |-> with_id(id)]
       ELSE /\ mgr_ret' = [tag |-> "Io"]
            /\ UNCHANGED storage

\* SessionManager::create_with_id; save_ok is whether the storage's save
\* succeeds
CreateWithId(id, save_ok) ==
    /\ mgr_op' = SmCall("create_with_id", id) @@
                     [existed |-> id \in DOMAIN storage, save_ok |-> save_ok]
    /\ SmUnchanged
    /\ IF id \in DOMAIN storage
       THEN /\ mgr_ret' = [tag |-> "Validation"]
            /\ UNCHANGED storage
       ELSE IF save_ok
            THEN /\ storage' = [i \in DOMAIN storage \cup {id} |->
                                   IF i = id THEN with_id(id) ELSE storage[i]]
                 /\ mgr_ret' = [tag |-> "Ok", session |-> with_id(id)]
            ELSE /\ mgr_ret' = [tag |-> "Io"]
                 /\ UNCHANGED storage

\* SessionManager::load followed by SessionManager::save of what was loaded
LoadAndSave(id, save_ok) ==
    /\ id \in DOMAIN storage
    /\ mgr_op' = SmCall("save", id)
    /\ SmUnchanged
    /\ IF save_ok
       THEN /\ storage' = [storage EXCEPT ![id] = touch(@)]
            /\ mgr_ret' = [tag |-> "Ok"]
       ELSE /\ mgr_ret' = [tag |-> "Io"]
            /\ UNCHANGED storage

\* SessionStorage::delete: the session is removed unless it is absent or
\* the removal fails
storage_delete(st, id, fails) ==
    IF id \notin DOMAIN st THEN [ok |-> FALSE, st |-> st]
    ELSE IF fails THEN [ok |-> FALSE, st |-> st]
    ELSE [ok |-> TRUE, st |-> [i \in DOMAIN st \ {id} |-> st[i]]]

\* SessionManager::delete
DeleteSession(id, fails) ==
    /\ mgr_op' = SmCall("delete", id)
    /\ SmUnchanged
    /\ LET r == storage_delete(storage, id, fails) IN
       /\ storage' = r.st
       /\ mgr_ret' = IF r.ok THEN [tag |-> "Ok"]
                     ELSE IF id \in DOMAIN storage THEN [tag |-> "Io"]
                     ELSE [tag |-> "SessionNotFound"]

RECURSIVE CleanLoopAborts(_, _, _, _, _, _)
\* the loop of clean, were it to stop at the first delete that fails
CleanLoopAborts(st, infos, i, before, failing, deleted) ==
    IF i > Len(infos) THEN [st |-> st, deleted |-> deleted]
    ELSE IF infos[i].updated_at < before
         THEN LET r == storage_delete(st, infos[i].id, infos[i].id \in failing) IN
              IF r.ok
              THEN CleanLoopAborts(r.st, infos, i + 1, before, failing, deleted + 1)
              ELSE [st |-> st, deleted |-> deleted]
         ELSE CleanLoopAborts(st, infos, i + 1, before, failing, deleted)

RECURSIVE CleanLoop(_, _, _, _, _, _)
\* the loop of clean: from the i-th listed session on
CleanLoop(st, infos, i, before, failing, deleted) ==
    IF i > Len(infos) THEN [st |-> st, deleted |-> deleted]
    ELSE IF infos[i].updated_at < before
         THEN LET r == storage_delete(st, infos[i].id, infos[i].id \in failing) IN
              CleanLoop(r.st, infos, i + 1, before, failing,
                        IF r.ok THEN deleted + 1 ELSE deleted)
         ELSE CleanLoop(st, infos, i + 1, before, failing, deleted)

\* SessionManager::clean; list_ok is whether the storage's list succeeds,
\* failing the sessions whose delete fails
Clean(before, o, list_ok, failing) ==
    /\ mgr_op' = SmCall("clean", "none") @@
                     [before |-> before, list_ok |-> list_ok, failing |-> failing]
    /\ SmUnchanged
    /\ IF ~list_ok
       THEN /\ mgr_ret' = [tag |-> "Io"]
            /\ UNCHANGED storage
       ELSE LET r == CleanLoop(storage, list(storage, o), 1, before, failing, 0) IN
            /\ storage' = r.st
            /\ mgr_ret' = [tag |-> "Ok", count |-> r.deleted]

RECURSIVE min_by_key(_, _, _)
\* Iterator::min_by_key
min_by_key(infos, i, best) ==
    IF i > Len(infos) THEN best
    ELSE min_by_key(infos, i + 1,
                    IF infos[i].updated_at < best.updated_at THEN infos[i] ELSE best)

RECURSIVE max_by_key(_, _, _)
\* Iterator::max_by_key: of several maximal elements, the last one
max_by_key(infos, i, best) ==
    IF i > Len(infos) THEN best
    ELSE max_by_key(infos, i + 1,
                    IF infos[i].updated_at >= best.updated_at THEN infos[i] ELSE best)

\* SessionStorage::latest, called by SessionManager::load_latest
LoadLatest(o, list_ok, load_ok) ==
    /\ mgr_op' = SmCall("load_latest", "none") @@
                     [list_ok |-> list_ok, load_ok |-> load_ok]
    /\ SmUnchanged
    /\ UNCHANGED storage
    /\ IF ~list_ok
       THEN mgr_ret' = [tag |-> "Io"]
       ELSE LET infos == list(storage, o) IN
            IF Len(infos) = 0
            THEN mgr_ret' = [tag |-> "None"]
            ELSE LET latest_info == max_by_key(infos, 2, infos[1]) IN
                 IF load_ok
                 THEN mgr_ret' = [tag |-> "Some", session |-> storage[latest_info.id]]
                 ELSE mgr_ret' = [tag |-> "Io"]

\* SessionManager::new over an empty storage
SmInit ==
    /\ now = 0
    /\ last_auto_save = {}
    /\ auto_save_interval = 1
    /\ sessions = <<>>
    /\ storage = <<>>
    /\ mgr_op = SmCall("new", "none")
    /\ mgr_ret = [tag |-> "unit"]
    /\ last_persist = {}

SmNext ==
    \/ Tick
    \/ \E id \in SessionIds, save_ok \in BOOLEAN : CreateWithId(id, save_ok)
    \/ \E id \in SessionIds, save_ok \in BOOLEAN : LoadAndSave(id, save_ok)
    \/ \E id \in SessionIds, fails \in BOOLEAN : DeleteSession(id, fails)
    \/ \E before \in 0..MaxBefore, o \in ListOrders(storage), list_ok \in BOOLEAN,
          failing \in SUBSET SessionIds : Clean(before, o, list_ok, failing)
    \/ \E o \in ListOrders(storage), list_ok \in BOOLEAN, load_ok \in BOOLEAN :
          LoadLatest(o, list_ok, load_ok)

(***************************************************************************)
(* The JSON export of a comment (cr-core/src/export/json.rs): the review   *)
(* ExportReview::from_comment builds, written by serde_json.  What the     *)
(* ContextExtractor finds in the diff is an input: a context or none.      *)
(***************************************************************************)
MaxLineNum == 2

JNum(n) == [t |-> "num", v |-> n]
JArr(a) == [t |-> "arr", v |-> a]

\* the comments a session is exported with
ExportComments ==
    {[id |-> 1,
      line_ref |-> [kind |-> k, file_id |-> "f1", side |-> side,
                    lines |-> IF k = "SingleLine" THEN <<"l1">> ELSE <<"l1", "l2">>],
      content |-> "a", severity |-> sev, state |-> "Open", tags |-> tags,
      created_at |-> 1,
      metadata |-> [line_number |-> ln, file_path |-> path]] :
        k \in {"SingleLine", "Range"}, side \in {"Old", "New"}, sev \in Severity,
        tags \in {<<>>, <<"t">>}, path \in {<<>>, <<"src/f">>},
        ln \in {<<>>} \cup {<<n>> : n \in 0..MaxLineNum}}

\* DiffSide::to_short_string
side_to_short_string(side) == IF side = "Old" THEN "old" ELSE "new"

\* Severity::to_short_string
severity_to_short_string(sev) ==
    CASE sev = "Info" -> "i" [] sev = "Warning" -> "w" [] sev = "Critical" -> "c"

\* format!("{:?}", state).to_lowercase()
state_to_lowercase(state) ==
    CASE state = "Open" -> "open" [] state = "Resolved" -> "resolved"

\* ExportLocation::from_comment
location_from_comment(comment, line_num) ==
    IF comment.line_ref.kind = "SingleLine"
    THEN [ln |-> [variant |-> "Single", nums |-> <<UnwrapOr(line_num, 0)>>],
          side |-> side_to_short_string(comment.line_ref.side)]
    ELSE [ln |-> [variant |-> "Single", nums |-> <<UnwrapOr(line_num, 0)>>],
          side |-> side_to_short_string(comment.line_ref.side)]

\* Serialize for LineNumber, #[serde(untagged)]: the number, or the array of
\* the two numbers
line_number_to_json(ln) ==
    IF ln.variant = "Single" THEN JNum(ln.nums[1])
    ELSE JArr(<<JNum(ln.nums[1]), JNum(ln.nums[2])>>)

\* ExportReview::from_comment, with the context the extractor returned
review_from_comment(comment, ctx) ==
    [id |-> comment.id,
     file |-> UnwrapOr(comment.metadata.file_path, comment.line_ref.file_id),
     loc |-> location_from_comment(comment, comment.metadata.line_number),
     sev |-> severity_to_short_string(comment.severity),
     msg |-> comment.content,
     tags |-> comment.tags,
     ctx |-> ctx,
     state |-> state_to_lowercase(comment.state),
     ts |-> comment.created_at]

\* Serialize for ExportReview: tags is left out when empty, ctx when None
review_to_json(r) ==
    LET always == [id |-> JStr(r.id), file |-> JStr(r.file),
                   loc |-> JObj([ln |-> line_number_to_json(r.loc.ln),
                                 side |-> JStr(r.loc.side)]),
                   sev |-> JStr(r.sev), msg |-> JStr(r.msg),
                   state |-> JStr(r.state), ts |-> JNum(r.ts)]
        tags == IF r.tags = <<>> THEN <<>>
                ELSE [tags |-> JArr([i \in DOMAIN r.tags |-> JStr(r.tags[i])])]
        ctx == IF r.ctx = <<>> THEN <<>> ELSE [ctx |-> JStr(r.ctx[1])]
    IN JObj(always @@ tags @@ ctx)

\* a comment about to be exported
ExportInit ==
    /\ export_in \in ExportComments
    /\ export_out = NoExport

\* the review of the comment is built and written
ExportReview(ctx) ==
    /\ export_out = NoExport
    /\ export_out' = review_to_json(review_from_comment(export_in, ctx))
    /\ UNCHANGED <<export_in, notExportVars>>

ExportNext == \E ctx \in {<<>>, <<"ctx">>} : ExportReview(ctx)

(***************************************************************************)
(* create_with_id called by several callers at once, each through its own  *)
(* manager or through a shared one (the method takes &self), over one       *)
(* storage.  A call is two storage operations, exists and then save; each   *)
(* is atomic (a HashMap under a lock, a stat and a rename) and the callers' *)
(* operations interleave.                                                   *)
(***************************************************************************)
Callers == {1, 2}

\* a caller that has not called yet
NotCalled == [pc |-> "idle", id |-> "none", ret |-> [tag |-> "none"]]

RaceUnchanged == UNCHANGED <<last_auto_save, auto_save_interval, sessions, mgr_op,
                            mgr_ret, last_persist, notRaceVars>>

\* the caller enters create_with_id(id, ..)
CallCreateWithId(p, id) ==
    /\ callers[p].pc = "idle"
    /\ callers[p].ret.tag = "none"
    /\ callers' = [callers EXCEPT ![p] = [pc |-> "exists", id |-> id,
                                          ret |-> [tag |-> "none"]]]
    /\ UNCHANGED <<now, storage>>
    /\ RaceUnchanged

\* if self.storage.exists(&id) { return Err(Validation) }
StorageExists(p) ==
    /\ callers[p].pc = "exists"
    /\ callers' = [callers EXCEPT ![p] =
                      IF callers[p].id \in DOMAIN storage
                      THEN [@ EXCEPT !.pc = "idle", !.ret = [tag |-> "Validation"]]
                      ELSE [@ EXCEPT !.pc = "save"]]
    /\ UNCHANGED <<now, storage>>
    /\ RaceUnchanged

\* let session = Session::with_id(..); self.storage.save(&session)?;
\* Ok(session).  The field by tells the sessions of two calls apart when both
\* read the same clock value.
StorageSave(p, save_ok) ==
    /\ callers[p].pc = "save"
    /\ LET session == with_id(callers[p].id) @@ [by |-> p] IN
       IF save_ok
       THEN /\ storage' = [i \in DOMAIN storage \cup {session.id} |->
                              IF i = session.id THEN session ELSE storage[i]]
            /\ callers' = [callers EXCEPT ![p] =
                              [@ EXCEPT !.pc = "idle",
                                        !.ret = [tag |-> "Ok", session |-> session]]]
       ELSE /\ callers' = [callers EXCEPT ![p] =
                              [@ EXCEPT !.pc = "idle", !.ret = [tag |-> "Io"]]]
            /\ UNCHANGED storage
    /\ UNCHANGED now
    /\ RaceUnchanged

\* time passes between the steps of the callers
RaceTick ==
    /\ now < MaxTime
    /\ now' = now + 1
    /\ UNCHANGED <<callers, storage>>
    /\ RaceUnchanged

RaceInit ==
    /\ callers = [p \in Callers |-> NotCalled]
    /\ now = 0
    /\ last_auto_save = {}
    /\ auto_save_interval = 1
    /\ sessions = <<>>
    /\ storage = <<>>
    /\ mgr_op = [name |-> "new", session |-> "none"]
    /\ mgr_ret = "unit"
    /\ last_persist = {}

RaceNext ==
    \/ \E p \in Callers, id \in SessionIds : CallCreateWithId(p, id)
    \/ \E p \in Callers : StorageExists(p)
    \/ \E p \in Callers, save_ok \in BOOLEAN : StorageSave(p, save_ok)
    \/ RaceTick

(***************************************************************************)
(* The diff parser (cr-core/src/diff/parser.rs).                           *)
(*                                                                         *)
(* The text is a sequence of lines, each taken by what parse looks at: the *)
(* prefix that selects the branch, the number of space-separated parts of  *)
(* a header and the numbers of a range ("10,5" is <<10, 5>>, "10" is       *)
(* <<10>>, a part that is not a number is -1).  An Option is a sequence of *)
(* no or one element.  A path and the content of a line are sequences of   *)
(* characters; a header carries the path its third part has after "a/" and *)
(* the path its fourth part has after "b/", each absent when the part does *)
(* not start with that prefix.                                             *)
(***************************************************************************)
MaxLines == 4

NotParsed == [tag |-> "none"]
InvalidDiff == [tag |-> "InvalidDiff"]
\* the thread unwinds: Option::unwrap on None
Panic == [tag |-> "Panic"]

\* the lines a diff text is made of
DiffLines ==
    {[kind |-> "diff_git", parts |-> 4, a |-> <<<<"f">>>>, b |-> <<<<"f">>>>],
                                                    \* diff --git a/f b/f
     [kind |-> "diff_git", parts |-> 4, a |-> <<>>, b |-> <<>>],
                                                    \* diff --git f f
     [kind |-> "diff_git", parts |-> 3, a |-> <<<<"f">>>>, b |-> <<>>],
                                                    \* diff --git a/f
     [kind |-> "hunk", parts |-> 4, old |-> <<1, 2>>, new |-> <<1, 2>>],
     [kind |-> "hunk", parts |-> 4, old |-> <<5>>, new |-> <<7, 0>>],
     [kind |-> "hunk", parts |-> 4, old |-> <<1, -1>>, new |-> <<1>>],
     [kind |-> "hunk", parts |-> 3, old |-> <<1>>, new |-> <<1>>],  \* @@ -1 +1
     [kind |-> "+", rest |-> <<"x">>], [kind |-> "-", rest |-> <<"x">>],
     [kind |-> " ", rest |-> <<"x">>], [kind |-> "\\", rest |-> <<"x">>],
     [kind |-> "empty"],                            \* a line of no character
     [kind |-> "other"]}                            \* index 1a2b..3c4d, --- a/f

DiffTexts == UNION {[1..n -> DiffLines] : n \in 0..MaxLines}

\* DiffParser::parse_diff_header: <<>> for an InvalidDiff error
parse_diff_header(line) ==
    IF line.parts < 4 THEN <<>>
    ELSE <<[old_path |-> line.a, new_path |-> line.b]>>

\* FileDiffBuilder::new: <<>> when new_path.or(old_path) is None and unwrap
\* panics
FileDiffBuilderNew(old_path, new_path) ==
    IF new_path = <<>> /\ old_path = <<>> THEN <<>>
    ELSE <<[old_path |-> old_path, new_path |-> new_path, hunks |-> <<>>]>>

\* LineId::from_content: "l_" and the hash of "{path}:{line_num}:{content}",
\* a hash being taken as its input; a LineId is the sequence of the pieces of
\* its string
from_content(file_path, content, line_num) ==
    <<"l_">> \o file_path \o <<":", ToString(line_num), ":">> \o content

\* DiffParser::parse_range: <<>> for an InvalidDiff error
parse_range(r) ==
    IF r[1] < 0 THEN <<>>
    ELSE IF Len(r) > 1
         THEN IF r[2] < 0 THEN <<>> ELSE <<[start |-> r[1], count |-> r[2]]>>
         ELSE <<[start |-> r[1], count |-> 1]>>

\* DiffParser::parse_hunk_header: <<>> for an InvalidDiff error
parse_hunk_header(line) ==
    IF line.parts < 4 THEN <<>>
    ELSE IF parse_range(line.old) = <<>> \/ parse_range(line.new) = <<>> THEN <<>>
    ELSE <<[old_range |-> parse_range(line.old)[1],
            new_range |-> parse_range(line.new)[1]]>>

\* hunk.lines.iter().filter(|l| matches!(l.line_type, ..)).count()
CountTypes(lines, types) == Cardinality({i \in DOMAIN lines : lines[i].line_type \in types})

\* calculate_line_nums, were an added line to move the old offset too
calculate_line_nums_all(line_type, hunk) ==
    LET old_offset == CountTypes(hunk.lines, {"Deleted", "Context", "Added"})
        new_offset == CountTypes(hunk.lines, {"Added", "Context"})
    IN CASE line_type = "Added" ->
              [old |-> <<>>, new |-> <<hunk.new_range.start + new_offset>>]
         [] line_type = "Deleted" ->
              [old |-> <<hunk.old_range.start + old_offset>>, new |-> <<>>]
         [] line_type = "Context" ->
              [old |-> <<hunk.old_range.start + old_offset>>,
               new |-> <<hunk.new_range.start + new_offset>>]
         [] OTHER -> [old |-> <<>>, new |-> <<>>]

\* DiffParser::calculate_line_nums
calculate_line_nums(line_type, hunk) ==
    LET old_offset == CountTypes(hunk.lines, {"Deleted", "Context"})
        new_offset == CountTypes(hunk.lines, {"Added", "Context"})
    IN CASE line_type = "Added" ->
              [old |-> <<>>, new |-> <<hunk.new_range.start + new_offset>>]
         [] line_type = "Deleted" ->
              [old |-> <<hunk.old_range.start + old_offset>>, new |-> <<>>]
         [] line_type = "Context" ->
              [old |-> <<hunk.old_range.start + old_offset>>,
               new |-> <<hunk.new_range.start + new_offset>>]
         [] OTHER -> [old |-> <<>>, new |-> <<>>]

\* DiffParser::parse_line: a Line, or <<>> for a line that is skipped
parse_line(line, cur_file, hunk) ==
    LET line_type == CASE line.kind = "+" -> "Added"
                       [] line.kind = "-" -> "Deleted"
                       [] line.kind = " " -> "Context"
                       [] OTHER -> "NoNewline"
        content == IF line.kind = "\\" THEN <<"\\">> \o line.rest ELSE line.rest
        nums == calculate_line_nums(line_type, hunk)
        file_path == IF cur_file = <<>> THEN <<"unknown">>
                     ELSE UnwrapOr(Or(cur_file[1].new_path,
                                      cur_file[1].old_path), <<"unknown">>)
        line_num == UnwrapOr(Or(nums.new, nums.old), 0)
    IN IF line.kind \in {"+", "-", " ", "\\"}
       THEN <<[id |-> from_content(file_path, content, line_num),
               line_type |-> line_type, content |-> content,
               old_line_num |-> nums.old, new_line_num |-> nums.new]>>
       ELSE <<>>

\* file.hunks.push(hunk.build()) when there is a hunk and a file
PushHunk(cur_file, cur_hunk) ==
    IF cur_hunk # <<>> /\ cur_file # <<>>
    THEN <<[cur_file[1] EXCEPT !.hunks = Append(@, cur_hunk[1])]>>
    ELSE cur_file

\* HunkBuilder::new
NewHunk(h) == [old_range |-> h.old_range, new_range |-> h.new_range, lines |-> <<>>]

RECURSIVE parse_loop(_, _, _, _, _)
\* the loop of parse and what follows it, from the i-th line on
parse_loop(input, i, files, cur_file, cur_hunk) ==
    IF i > Len(input)
    THEN [tag |-> "Ok", files |-> files \o PushHunk(cur_file, cur_hunk)]
    ELSE LET line == input[i] IN
         CASE line.kind = "diff_git" ->
                IF parse_diff_header(line) = <<>>
                THEN InvalidDiff
                ELSE LET h == parse_diff_header(line)[1]
                         file == FileDiffBuilderNew(h.old_path, h.new_path)
                     IN IF file = <<>>
                        THEN Panic
                        ELSE parse_loop(input, i + 1,
                                        files \o PushHunk(cur_file, cur_hunk),
                                        file, <<>>)
           [] line.kind = "hunk" ->
                IF parse_hunk_header(line) = <<>>
                THEN InvalidDiff
                ELSE parse_loop(input, i + 1, files, PushHunk(cur_file, cur_hunk),
                                <<NewHunk(parse_hunk_header(line)[1])>>)
           [] OTHER ->
                IF cur_hunk = <<>>
                THEN parse_loop(input, i + 1, files, cur_file, cur_hunk)
                ELSE parse_loop(input, i + 1, files, cur_file,
                                <<[cur_hunk[1] EXCEPT
                                     !.lines = @ \o parse_line(line, cur_file,
                                                             cur_hunk[1])]>>)

\* DiffParser::parse
parse(input) == parse_loop(input, 1, <<>>, <<>>, <<>>)

\* FileDiff::lazy_new
lazy_new(path) ==
    [old_path |-> <<>>, new_path |-> <<path>>, mode |-> "Added", hunks |-> <<>>,
     lazy |-> TRUE]

\* no load_lazy_file call yet
NoLoad == [name |-> "new", before |-> lazy_new(<<"f">>), ret |-> "Ok"]

\* no file is loaded lazily
LazyIdle ==
    /\ lazy_file = lazy_new(<<"f">>)
    /\ disk_file = [kind |-> "absent", lines |-> <<>>]
    /\ lazy_op = NoLoad

\* a diff text, not parsed yet
ParseInit ==
    /\ parse_input \in DiffTexts
    /\ parse_result = NotParsed
    /\ LazyIdle

\* the call of parse
Parse ==
    /\ parse_result = NotParsed
    /\ parse_result' = parse(parse_input)
    /\ UNCHANGED <<parse_input, lazy_file, disk_file, lazy_op, notParseVars>>

ParseNext == Parse

(***************************************************************************)
(* Lazy loading of an untracked file (DiffParser::load_lazy_file).         *)
(*                                                                         *)
(* The file system holds, at the file's display path, no regular file, a   *)
(* file whose metadata cannot be read, a file above max_file_size, a file  *)
(* that is not UTF-8, or a text given by its lines (no line: empty file).  *)
(***************************************************************************)
MaxFileLines == 2

\* the contents of the lines of a file or of a diff
LineContents == {<<"x">>, <<"y">>}

Texts == UNION {[1..n -> LineContents] : n \in 0..MaxFileLines}

DiskFiles ==
    {[kind |-> k, lines |-> <<>>] :
        k \in {"absent", "no_metadata", "too_large", "not_utf8"}}
    \cup {[kind |-> "text", lines |-> t] : t \in Texts}

\* a FileDiff as FileDiffBuilder::build returns it, with one hunk of one line
BuiltFile(path) ==
    [old_path |-> <<path>>, new_path |-> <<path>>, mode |-> "Modified",
     hunks |-> <<[old_range |-> [start |-> 1, count |-> 0],
                  new_range |-> [start |-> 1, count |-> 1],
                  lines |-> <<[id |-> from_content(path, <<"x">>, 1),
                               line_type |-> "Added", content |-> <<"x">>,
                               old_line_num |-> <<>>, new_line_num |-> <<1>>]>>]>>,
     lazy |-> FALSE]

\* FileDiff::display_path
display_path(file) == Or(file.new_path, file.old_path)[1]

\* FileDiff::needs_loading
needs_loading(file) == file.lazy /\ file.hunks = <<>>

\* the lines load_lazy_file builds, were the id computed from the index i
\* of enumerate and not from i + 1
hunk_lines_from_zero(path, lines) ==
    [i \in DOMAIN lines |->
        [id |-> from_content(path, lines[i], i - 1), line_type |-> "Added",
         content |-> lines[i], old_line_num |-> <<>>, new_line_num |-> <<i>>]]

\* the lines load_lazy_file builds: for (i, line_content) in enumerate, with
\* i + 1 here the index of a 1-based sequence
hunk_lines(path, lines) ==
    [i \in DOMAIN lines |->
        [id |-> from_content(path, lines[i], i), line_type |-> "Added",
         content |-> lines[i], old_line_num |-> <<>>, new_line_num |-> <<i>>]]

\* load_lazy_file, were it to load whenever the file has no hunk
load_lazy_file_again(file, d) ==
    LET path == display_path(file) IN
    IF file.hunks # <<>> THEN [ret |-> "Ok", file |-> file]
    ELSE IF d.kind = "text" /\ d.lines # <<>>
    THEN [ret |-> "Ok",
          file |-> [file EXCEPT
                      !.hunks = <<[old_range |-> [start |-> 0, count |-> 0],
                                   new_range |-> [start |-> 1, count |-> Len(d.lines)],
                                   lines |-> hunk_lines(path, d.lines)]>>,
                      !.lazy = FALSE]]
    ELSE IF d.kind \in {"too_large", "not_utf8"}
    THEN [ret |-> "Ok", file |-> [file EXCEPT !.mode = "Binary", !.lazy = FALSE]]
    ELSE [ret |-> "Ok", file |-> [file EXCEPT !.lazy = FALSE]]

\* DiffParser::load_lazy_file: what it returns and the file it leaves
load_lazy_file(file, d) ==
    LET path == display_path(file) IN
    IF ~needs_loading(file) THEN [ret |-> "Ok", file |-> file]
    ELSE CASE d.kind = "absent" ->
                [ret |-> "Ok", file |-> [file EXCEPT !.lazy = FALSE]]
           [] d.kind = "no_metadata" -> [ret |-> "Io", file |-> file]
           [] d.kind \in {"too_large", "not_utf8"} ->
                [ret |-> "Ok",
                 file |-> [file EXCEPT !.mode = "Binary", !.lazy = FALSE]]
           [] d.kind = "text" /\ d.lines = <<>> ->
                [ret |-> "Ok", file |-> [file EXCEPT !.lazy = FALSE]]
           [] OTHER ->
                [ret |-> "Ok",
                 file |-> [file EXCEPT
                     !.hunks = <<[old_range |-> [start |-> 0, count |-> 0],
                                  new_range |-> [start |-> 1,
                                                 count |-> Len(d.lines)],
                                  lines |-> hunk_lines(path, d.lines)]>>,
                     !.lazy = FALSE]]

\* an added file of the diff text: its header, one hunk header and its lines
NewFileText(path, t) ==
    <<[kind |-> "diff_git", parts |-> 4, a |-> <<path>>, b |-> <<path>>],
      [kind |-> "hunk", parts |-> 4, old |-> <<0, 0>>, new |-> <<1, Len(t)>>]>>
    \o [i \in DOMAIN t |-> [kind |-> "+", rest |-> t[i]]]

\* a file of the working tree, listed as untracked or found by the diff, and
\* a diff text that adds a file
LazyInit ==
    /\ lazy_file \in {lazy_new(<<"f">>), BuiltFile(<<"f">>)}
    /\ disk_file \in DiskFiles
    /\ lazy_op = NoLoad
    /\ parse_input \in {NewFileText(path, t) : path \in {<<"f">>, <<"g">>},
                                                t \in Texts \ {<<>>}}
    /\ parse_result = NotParsed

\* the call of load_lazy_file on the file
LoadLazyFile ==
    LET r == load_lazy_file(lazy_file, disk_file)
    IN /\ lazy_file' = r.file
       /\ lazy_op' = [name |-> "load_lazy_file", before |-> lazy_file,
                      ret |-> r.ret]
       /\ UNCHANGED <<disk_file, parse_input, parse_result, notParseVars>>

\* another process writes, replaces or removes the file
ChangeDisk(d) ==
    /\ disk_file # d
    /\ disk_file' = d
    /\ lazy_op' = [lazy_op EXCEPT !.name = "disk"]
    /\ UNCHANGED <<lazy_file, parse_input, parse_result, notParseVars>>

LazyNext ==
    \/ LoadLazyFile
    \/ \E d \in DiskFiles : ChangeDisk(d)
    \/ Parse

(***************************************************************************)
(* The review TUI (cr-ui/src/app/state.rs) and run_tui of the review       *)
(* command (cr-cli/src/commands/review.rs).                                *)
(*                                                                         *)
(* app holds the AppState, the session (its files, its CommentManager) and *)
(* the line_comments cache.  The editor's text is a sequence of            *)
(* characters.  A key is handled by the handler of the current mode; when  *)
(* should_quit is set the loop ends and run_tui saves the session.         *)
(***************************************************************************)
MaxEditor == 1
PageSize == 20
ViewportHeight == 20

EditorChars == {"a", " "}

\* FileId::from_path: "f_" and the hash of the path, taken as its input
file_id_from_path(path) == <<"f_">> \o path

\* LineId::from_string
line_id_from_string(s) == <<s>>

\* a file that parse marked Binary: no hunk
BinaryFile(path) ==
    [old_path |-> <<path>>, new_path |-> <<path>>, mode |-> "Binary",
     hunks |-> <<>>, lazy |-> FALSE]

\* a FileDiff with the id its constructor gives it
WithId(file) == file @@ [id |-> file_id_from_path(display_path(file))]

\* the diffs a session is reviewed with: a changed file, with a binary file
\* after it, or with an untracked file before it
TuiDiffs ==
    {<<WithId(BuiltFile(<<"f">>))>>,
     <<WithId(BuiltFile(<<"f">>)), WithId(BinaryFile(<<"b">>))>>,
     <<WithId(lazy_new(<<"g">>)), WithId(BuiltFile(<<"f">>))>>}

\* what the untracked file is on disk
TuiDisks ==
    {[kind |-> "absent", lines |-> <<>>], [kind |-> "no_metadata", lines |-> <<>>],
     [kind |-> "text", lines |-> [i \in 1..MaxFileLines |-> <<"x">>]]}

RECURSIVE Concat(_)
Concat(ss) == IF ss = <<>> THEN <<>> ELSE Head(ss) \o Concat(Tail(ss))

\* for hunk in &file.hunks { for line in &hunk.lines { .. line_idx += 1 } }
FlatLines(file) == Concat([h \in DOMAIN file.hunks |-> file.hunks[h].lines])

\* str::trim
trim(s) ==
    LET solid == {i \in DOMAIN s : s[i] # " "}
    IN IF solid = {} THEN <<>>
       ELSE SubSeq(s, CHOOSE i \in solid : \A j \in solid : i <= j,
                      CHOOSE i \in solid : \A j \in solid : i >= j)

\* AppState::set_message
set_message(a, msg) == [a EXCEPT !.message = <<msg>>]

\* files.get(current_file)
CurrentFile(a) ==
    IF a.current_file < Len(a.files) THEN <<a.files[a.current_file + 1]>> ELSE <<>>

\* App::current_file_line_count
current_file_line_count(a) ==
    IF CurrentFile(a) = <<>> THEN 0 ELSE Len(FlatLines(CurrentFile(a)[1]))

\* App::ensure_visible
ensure_visible(a) ==
    IF a.current_line < a.scroll_offset
    THEN [a EXCEPT !.scroll_offset = a.current_line]
    ELSE IF a.current_line >= a.scroll_offset + ViewportHeight
         THEN [a EXCEPT !.scroll_offset = a.current_line - ViewportHeight + 1]
         ELSE a

\* App::move_down
app_move_down(a) ==
    IF a.current_line < saturating_sub(current_file_line_count(a), 1)
    THEN ensure_visible([a EXCEPT !.current_line = @ + 1])
    ELSE a

\* App::move_up
app_move_up(a) ==
    IF a.current_line > 0 THEN ensure_visible([a EXCEPT !.current_line = @ - 1])
    ELSE a

\* App::page_up
page_up(a) == ensure_visible([a EXCEPT !.current_line = saturating_sub(@, PageSize)])

\* App::page_down
page_down(a) ==
    LET max == saturating_sub(current_file_line_count(a), 1)
    IN ensure_visible([a EXCEPT !.current_line =
                          IF @ + PageSize < max THEN @ + PageSize ELSE max])

\* App::load_current_file, the file system holding d at the file's path
load_current_file(a, d) ==
    IF CurrentFile(a) # <<>> /\ needs_loading(CurrentFile(a)[1])
    THEN LET r == load_lazy_file(CurrentFile(a)[1], d)
             b == [a EXCEPT !.files[a.current_file + 1] = r.file]
         IN IF r.ret = "Ok" THEN b ELSE set_message(b, "Failed to load file")
    ELSE a

\* App::next_file
app_next_file(a, d) ==
    IF a.current_file < saturating_sub(Len(a.files), 1)
    THEN load_current_file([a EXCEPT !.current_file = @ + 1, !.current_line = 0,
                                     !.scroll_offset = 0], d)
    ELSE a

\* App::prev_file
app_prev_file(a, d) ==
    IF a.current_file > 0
    THEN load_current_file([a EXCEPT !.current_file = @ - 1, !.current_line = 0,
                                     !.scroll_offset = 0], d)
    ELSE a

\* App::goto_top
app_goto_top(a) == [a EXCEPT !.current_line = 0, !.scroll_offset = 0]

\* App::goto_bottom
app_goto_bottom(a) ==
    ensure_visible([a EXCEPT !.current_line =
                       saturating_sub(current_file_line_count(a), 1)])

\* the indexes of the lines of the current file that the cache has a key for
CachedLines(a) ==
    IF CurrentFile(a) = <<>> THEN {}
    ELSE LET file == CurrentFile(a)[1]
             lines == FlatLines(file)
         IN IF file.id \notin DOMAIN a.line_comments THEN {}
            ELSE {i \in 0..(Len(lines) - 1) :
                     lines[i + 1].id \in DOMAIN a.line_comments[file.id]}

\* App::next_comment
next_comment(a) ==
    LET after == {i \in CachedLines(a) : i > a.current_line}
    IN IF after # {}
       THEN ensure_visible([a EXCEPT !.current_line =
                               CHOOSE i \in after : \A j \in after : i <= j])
       ELSE set_message(a, "No more comments")

\* App::prev_comment
prev_comment(a) ==
    LET before == {i \in CachedLines(a) : i < a.current_line}
    IN IF before # {}
       THEN ensure_visible([a EXCEPT !.current_line =
                               CHOOSE i \in before : \A j \in before : i >= j])
       ELSE set_message(a, "No previous comments")

\* the line at the cursor, None when the file has no such line
TargetLine(a) ==
    LET lines == FlatLines(CurrentFile(a)[1])
    IN IF a.current_line < Len(lines) THEN <<lines[a.current_line + 1]>> ELSE <<>>

\* self.line_comments.entry(file_id).or_default().entry(line_id).or_default()
\* .push(comment_id)
CachePush(cache, file, line, id) ==
    LET of_file == IF file \in DOMAIN cache THEN cache[file] ELSE EmptyMap
    IN [f \in DOMAIN cache \cup {file} |->
           IF f = file THEN EntryPush(of_file, line, id) ELSE cache[f]]

\* App::add_comment: CommentBuilder::build, CommentManager::add, the cache
add_comment(a) ==
    IF CurrentFile(a) = <<>> THEN a
    ELSE LET file == CurrentFile(a)[1]
             target == TargetLine(a)
             line_number ==
                 IF target = <<>> THEN 0
                 ELSE UnwrapOr(Or(target[1].new_line_num, target[1].old_line_num), 0)
             line_id == IF target = <<>> THEN line_id_from_string("file-comment")
                        ELSE target[1].id
             side == IF target # <<>> /\ target[1].line_type = "Deleted"
                     THEN "Old" ELSE "New"
             comment ==
                 [id |-> a.next_id,
                  line_ref |-> [kind |-> "SingleLine", file_id |-> file.id,
                                lines |-> <<line_id>>, side |-> side],
                  content |-> a.editor_content, severity |-> "Info",
                  state |-> "Open", tags |-> <<>>,
                  metadata |-> [line_number |-> <<line_number>>,
                                file_path |-> <<display_path(file)>>]]
         IN IF trim(a.editor_content) = <<>> THEN a
            ELSE IF comment.id \in DOMAIN a.comments
            THEN [a EXCEPT !.next_id = @ + 1]
            ELSE set_message(
                   [a EXCEPT !.next_id = @ + 1,
                             !.index = IndexAdd(a.index, comment),
                             !.comments = [x \in DOMAIN a.comments \cup {comment.id} |->
                                              IF x = comment.id THEN comment
                                              ELSE a.comments[x]],
                             !.line_comments = CachePush(a.line_comments, file.id,
                                                         line_id, comment.id)],
                   "Comment added")

\* App::delete_comment_at_line
delete_comment_at_line(a) ==
    IF CurrentFile(a) = <<>> \/ TargetLine(a) = <<>> THEN a
    ELSE LET file == CurrentFile(a)[1]
             line == TargetLine(a)[1]
             cache == a.line_comments
         IN IF /\ file.id \in DOMAIN cache
               /\ line.id \in DOMAIN cache[file.id]
               /\ cache[file.id][line.id] # <<>>
            THEN LET ids == cache[file.id][line.id]
                     id == ids[Len(ids)]
                     b == [a EXCEPT !.line_comments[file.id][line.id] =
                                        SubSeq(ids, 1, Len(ids) - 1)]
                 IN IF id \in DOMAIN a.comments
                    THEN set_message(
                           [b EXCEPT !.comments = MapRemove(a.comments, id),
                                     !.index = IndexRemove(a.index, a.comments[id])],
                           "Comment deleted")
                    ELSE set_message(b, "No comment on this line")
            ELSE set_message(a, "No comment on this line")

\* the keys of the normal mode that have an arm of their own, and another key
NormalKeys ==
    {"q", "?", "j", "k", "g", "G", "n", "N", "]", "[", "c", "C", "ctrl-u",
     "ctrl-d", "x", "s", "other"}

\* App::handle_normal_input
handle_normal_input(a, k, d) ==
    CASE k = "q" -> [a EXCEPT !.should_quit = TRUE]
      [] k = "?" -> [a EXCEPT !.mode = "Help"]
      [] k = "j" -> app_move_down(a)
      [] k = "k" -> app_move_up(a)
      [] k = "g" -> app_goto_top(a)
      [] k = "G" -> app_goto_bottom(a)
      [] k = "n" -> app_next_file(a, d)
      [] k = "N" -> app_prev_file(a, d)
      [] k = "]" -> next_comment(a)
      [] k = "[" -> prev_comment(a)
      [] k = "c" -> [a EXCEPT !.mode = "Insert", !.is_file_comment = FALSE,
                              !.editor_content = <<>>, !.editor_cursor = 0]
      [] k = "C" -> [a EXCEPT !.mode = "Insert", !.is_file_comment = TRUE,
                              !.editor_content = <<>>, !.editor_cursor = 0]
      [] k = "ctrl-u" -> page_up(a)
      [] k = "ctrl-d" -> page_down(a)
      [] k = "x" -> delete_comment_at_line(a)
      [] k = "s" -> set_message(a, "Session saved")
      [] OTHER -> a

InsertKeys == {"Esc", "Enter", "Backspace", "Left", "Right", "other"} \cup EditorChars

\* App::handle_insert_input
handle_insert_input(a, k) ==
    LET text == a.editor_content
        cur == a.editor_cursor
        leave(b) == [b EXCEPT !.mode = "Normal", !.editor_content = <<>>,
                              !.editor_cursor = 0]
    IN CASE k = "Esc" -> leave(a)
         [] k = "Enter" ->
              IF trim(text) # <<>> THEN leave(add_comment(a)) ELSE leave(a)
         [] k \in EditorChars ->
              [a EXCEPT !.editor_content =
                            SubSeq(text, 1, cur) \o <<k>> \o SubSeq(text, cur + 1, Len(text)),
                        !.editor_cursor = cur + 1]
         [] k = "Backspace" ->
              IF cur > 0
              THEN [a EXCEPT !.editor_cursor = cur - 1,
                             !.editor_content =
                                 SubSeq(text, 1, cur - 1) \o SubSeq(text, cur + 1, Len(text))]
              ELSE a
         [] k = "Left" -> IF cur > 0 THEN [a EXCEPT !.editor_cursor = cur - 1] ELSE a
         [] k = "Right" ->
              IF cur < Len(text) THEN [a EXCEPT !.editor_cursor = cur + 1] ELSE a
         [] OTHER -> a

\* App::handle_help_input
handle_help_input(a) == [a EXCEPT !.mode = "Normal"]

\* what the storage holds of a session
Stored(a) == [files |-> a.files, comments |-> a.comments]

\* App::new for a session that SessionManager::create has just saved
AppNew(files, d) ==
    load_current_file(
        [mode |-> "Normal", message |-> <<>>, should_quit |-> FALSE,
         current_file |-> 0, current_line |-> 0, scroll_offset |-> 0,
         editor_content |-> <<>>, editor_cursor |-> 0, is_file_comment |-> FALSE,
         files |-> files, comments |-> [x \in {} |-> 0], index |-> NewIndex,
         line_comments |-> [x \in {} |-> 0], next_id |-> 1], d)

TuiInit ==
    /\ disk_file \in TuiDisks
    /\ \E files \in TuiDiffs :
          /\ app = AppNew(files, disk_file)
          /\ saved = [files |-> files, comments |-> [x \in {} |-> 0]]
    /\ key = "none"
    /\ parse_input = <<>>
    /\ parse_result = NotParsed
    /\ lazy_file = lazy_new(<<"f">>)
    /\ lazy_op = NoLoad

\* a key in normal mode
NormalKey(k) ==
    /\ ~app.should_quit
    /\ app.mode = "Normal"
    /\ app' = handle_normal_input(app, k, disk_file)
    /\ key' = k
    /\ UNCHANGED <<saved, notTuiVars>>

\* a key in insert mode; the editor takes MaxEditor characters and the
\* session MaxComments comments
InsertKey(k) ==
    /\ ~app.should_quit
    /\ app.mode = "Insert"
    /\ k \in EditorChars => Len(app.editor_content) < MaxEditor
    /\ (k = "Enter" /\ trim(app.editor_content) # <<>>) => app.next_id <= MaxComments
    /\ app' = handle_insert_input(app, k)
    /\ key' = k
    /\ UNCHANGED <<saved, notTuiVars>>

\* a key in help mode
HelpKey ==
    /\ ~app.should_quit
    /\ app.mode = "Help"
    /\ app' = handle_help_input(app)
    /\ key' = "other"
    /\ UNCHANGED <<saved, notTuiVars>>

\* run_tui once App::run has returned: manager.save(&mut session)
ExitAndSave(save_ok) ==
    /\ app.should_quit
    /\ key # "exit"
    /\ saved' = IF save_ok THEN Stored(app) ELSE saved
    /\ key' = "exit"
    /\ UNCHANGED <<app, notTuiVars>>

TuiNext ==
    \/ \E k \in NormalKeys : NormalKey(k)
    \/ \E k \in InsertKeys : InsertKey(k)
    \/ HelpKey
    \/ \E save_ok \in BOOLEAN : ExitAndSave(save_ok)

(***************************************************************************)
(* Specifications                                                          *)
(***************************************************************************)
\* a component that a specification does not run
CmIdle == CmInit
ParseIdle ==
    /\ parse_input = <<>>
    /\ parse_result = NotParsed
    /\ LazyIdle
\* no create_with_id call, no export and no TUI
RaceIdle == callers = <<>>
ExportIdle ==
    /\ export_in = NoExport
    /\ export_out = NoExport
TuiIdle ==
    /\ app = NoApp
    /\ saved = NoApp
    /\ key = "none"
NavIdle ==
    /\ diff = <<>>
    /\ position = NewPosition
    /\ nav_op = Call("new")
    /\ nav_ret = "unit"

FsIdle == FsInit({})
EnvIdle ==
    /\ disk = NoFile
    /\ mem = NoSession
    /\ env_op = "new"
    /\ load_ret = [tag |-> "none"]

MgrIdle ==
    /\ now = 0
    /\ last_auto_save = {}
    /\ auto_save_interval = 1
    /\ sessions = <<>>
    /\ storage = <<>>
    /\ mgr_op = [name |-> "new", session |-> "none"]
    /\ mgr_ret = "unit"
    /\ last_persist = {}

InitComments == CmInit /\ NavIdle /\ FsIdle /\ EnvIdle /\ MgrIdle /\ ParseIdle
    /\ RaceIdle /\ ExportIdle /\ TuiIdle
InitNav == NavInit /\ CmIdle /\ FsIdle /\ EnvIdle /\ MgrIdle /\ ParseIdle
    /\ RaceIdle /\ ExportIdle /\ TuiIdle
InitStore1 == FsInit({1}) /\ CmIdle /\ NavIdle /\ EnvIdle /\ MgrIdle /\ ParseIdle
    /\ RaceIdle /\ ExportIdle /\ TuiIdle
InitStore2 == FsInit({1, 2}) /\ CmIdle /\ NavIdle /\ EnvIdle /\ MgrIdle /\ ParseIdle
    /\ RaceIdle /\ ExportIdle /\ TuiIdle
InitEnvelope == EnvInit /\ CmIdle /\ NavIdle /\ FsIdle /\ MgrIdle /\ ParseIdle
    /\ RaceIdle /\ ExportIdle /\ TuiIdle
InitAutoSave == MgrInit /\ CmIdle /\ NavIdle /\ FsIdle /\ EnvIdle /\ ParseIdle
    /\ RaceIdle /\ ExportIdle /\ TuiIdle

SpecComments == InitComments /\ [][CmNext]_vars
SpecNav == InitNav /\ [][NavNext]_vars
\* one process saving, one loading
SpecStore1 == InitStore1 /\ [][FsNext]_vars
\* two processes saving the same session id, one loading
SpecStore2 == InitStore2 /\ [][FsNext]_vars
\* one process loading, editing and saving a session that may have been
\* written by another version of the program
SpecEnvelope == InitEnvelope /\ [][EnvNext]_vars
\* one manager auto-saving two sessions as time passes
SpecAutoSave == InitAutoSave /\ [][MgrNext]_vars
\* a Session over an empty CommentManager
RtInit ==
    /\ CmInit
    /\ mem \in [id : {"s1"}, diff_source : DiffSources]
    /\ disk = NoFile
    /\ env_op = "new"
    /\ load_ret = [tag |-> "none"]

\* a session whose comments are added and deleted, written out and read back
RtNext ==
    \/ \E c \in NewComments : Add(c)
    \/ \E id \in CommentIds : Delete(id)
    \/ \E o \in ValueOrders(comments) : RoundTrip(o)
\* a manager whose comments are added, deleted and changed through get_mut
AddWhileSmall(c) ==
    /\ Indexed(index.by_severity) <= MaxIndexed
    /\ Add(c)
SevNext ==
    \/ \E c \in NewComments : AddWhileSmall(c)
    \/ \E id \in CommentIds : Delete(id)
    \/ \E id \in CommentIds, s \in Severity : SetSeverity(id, s)
SpecSeverity == InitComments /\ [][SevNext]_vars
InitRoundTrip == RtInit /\ NavIdle /\ FsIdle /\ MgrIdle /\ ParseIdle
    /\ RaceIdle /\ ExportIdle /\ TuiIdle
SpecRoundTrip == InitRoundTrip /\ [][RtNext]_vars
\* a diff text is parsed
InitParse == ParseInit /\ CmIdle /\ NavIdle /\ FsIdle /\ EnvIdle /\ MgrIdle
    /\ RaceIdle /\ ExportIdle /\ TuiIdle
SpecParse == InitParse /\ [][ParseNext]_vars
\* a file is loaded lazily, the file system changing under it, and a diff
\* text that adds a file is parsed
InitLazy == LazyInit /\ CmIdle /\ NavIdle /\ FsIdle /\ EnvIdle /\ MgrIdle
    /\ RaceIdle /\ ExportIdle /\ TuiIdle
SpecLazy == InitLazy /\ [][LazyNext]_vars
\* a comment is exported as JSON
InitExport == ExportInit /\ CmIdle /\ NavIdle /\ FsIdle /\ EnvIdle /\ MgrIdle
    /\ ParseIdle /\ RaceIdle /\ TuiIdle
SpecExport == InitExport /\ [][ExportNext]_vars
\* a session is reviewed in the TUI, then saved by run_tui
InitTui == TuiInit /\ CmIdle /\ NavIdle /\ FsIdle /\ EnvIdle /\ MgrIdle
    /\ RaceIdle /\ ExportIdle
SpecTui == InitTui /\ [][TuiNext]_vars
\* two callers of create_with_id over one storage
InitRace == RaceInit /\ CmIdle /\ NavIdle /\ FsIdle /\ EnvIdle /\ ParseIdle
    /\ ExportIdle /\ TuiIdle
SpecRace == InitRace /\ [][RaceNext]_vars
\* a CommentIndex called directly
InitIndex == InitComments
SpecIndex == InitIndex /\ [][IndexNext]_vars
\* one manager creating, saving, deleting, cleaning and looking up sessions
InitSessions == SmInit /\ CmIdle /\ NavIdle /\ FsIdle /\ EnvIdle /\ ParseIdle
    /\ RaceIdle /\ ExportIdle /\ TuiIdle
SpecSessions == InitSessions /\ [][SmNext]_vars

(***************************************************************************)
(* C1                                                                      *)
(***************************************************************************)
StoredWithLine(l) == {id \in DOMAIN comments : l \in RangeOf(line_ids(comments[id]))}
StoredWithFile(f) == {id \in DOMAIN comments : file_id(comments[id]) = f}
StoredWithSeverity(s) == {id \in DOMAIN comments : comments[id].severity = s}

\* C1: after any sequence of add, update, update_state, delete and
\* delete_by_file calls, each by-line, by-file and by-severity bucket holds
\* exactly the ids of the stored comments with that line id, file id or
\* severity (so an added comment is found under each of its line ids and a
\* deleted one under none).
C1_IndexInLockstep ==
    /\ \A l \in LineIdSet : RangeOf(IndexGet(index.by_line, l)) = StoredWithLine(l)
    /\ \A f \in FileIds : RangeOf(IndexGet(index.by_file, f)) = StoredWithFile(f)
    /\ \A s \in Severity :
          RangeOf(IndexGet(index.by_severity, s)) = StoredWithSeverity(s)
    /\ DOMAIN index.by_line \subseteq LineIdSet
    /\ DOMAIN index.by_file \subseteq FileIds
    /\ DOMAIN index.by_severity \subseteq Severity

\* a range comment is stored and indexed right after another comment was deleted
C1_Witness ==
    /\ cm_op = "delete"
    /\ cm_result = "Ok"
    /\ \E id \in DOMAIN comments :
          /\ comments[id].line_ref.kind = "Range"
          /\ \A l \in RangeOf(line_ids(comments[id])) :
                id \in RangeOf(IndexGet(index.by_line, l))

(***************************************************************************)
(* C2                                                                      *)
(***************************************************************************)
\* C2: every navigator transition that returns false leaves the position
\* (file, hunk and line index) exactly as it was before the call.
C2_FalseLeavesPosition ==
    [][nav_ret' = "false" => position' = position]_vars

\* goto_line has returned false for a file index in range
C2_Witness ==
    /\ nav_op.name = "goto_line"
    /\ nav_ret = "false"
    /\ nav_op.f < Len(diff)

(***************************************************************************)
(* C3                                                                      *)
(***************************************************************************)
\* the last line of the last hunk of the last file
AtLastLine(d, p) ==
    /\ Len(d) > 0
    /\ p.file_idx = Len(d) - 1
    /\ Len(d[Len(d)]) > 0
    /\ p.hunk_idx = Len(d[Len(d)]) - 1
    /\ current_hunk_len(d, p) > 0
    /\ p.line_idx = current_hunk_len(d, p) - 1

\* C3: at the first line of the first file prev_line returns false and the
\* position is unchanged; at the last line of the last hunk of the last file
\* next_line returns false and the position is unchanged.
C3_NoWrapAround ==
    [][/\ (position = NewPosition /\ nav_op'.name = "prev_line")
            => (nav_ret' = "false" /\ position' = position)
       /\ (AtLastLine(diff, position) /\ nav_op'.name = "next_line")
            => (nav_ret' = "false" /\ position' = position)]_vars

\* next_line has been refused on the last line of a diff of several files
C3_Witness ==
    /\ nav_op.name = "next_line"
    /\ nav_ret = "false"
    /\ Len(diff) > 1
    /\ AtLastLine(diff, position)
    /\ position # NewPosition

(***************************************************************************)
(* C4                                                                      *)
(***************************************************************************)
\* the lines of the files before file index f
LinesBefore(d, f) == SumSeq([i \in 1..f |-> total_lines(d[i])])

\* C4 as stated: after goto_line(f, k) has returned true, global_line_index()
\* is k.
C4_InverseOfGotoLine ==
    (nav_op.name = "goto_line" /\ nav_ret = "true")
        => global_line_index(diff, position) = nav_op.k

\* C4 as amended: after goto_line(f, k) has returned true,
\* global_line_index() is k plus the number of lines of the files before f.
C4_GlobalIndexAfterGotoLine ==
    (nav_op.name = "goto_line" /\ nav_ret = "true")
        => global_line_index(diff, position) = nav_op.k + LinesBefore(diff, nav_op.f)

\* goto_line has reached a line of a later hunk of a later file, after a
\* file that has lines
C4_Witness ==
    /\ nav_op.name = "goto_line"
    /\ nav_ret = "true"
    /\ nav_op.f > 0
    /\ position.hunk_idx > 0
    /\ LinesBefore(diff, nav_op.f) > 0

(***************************************************************************)
(* C5                                                                      *)
(***************************************************************************)
IsPrefix(b, c) == Len(b) <= Len(c) /\ \A i \in DOMAIN b : b[i] = c[i]

\* the envelopes of the save calls that are under way
InProgress == {w_env[w] : w \in {x \in DOMAIN w_pc : w_pc[x] # "idle"}}

\* C5: at every moment during and after a save, failed or not, the final
\* file is absent, the whole envelope saved before or the whole new envelope,
\* and a load running alongside the writer reads nothing but a whole envelope.
C5_FinalFileAlwaysWhole ==
    /\ fs_final = 0 => last_ok = 0
    /\ fs_final # 0 =>
          /\ last_ok # 0
          /\ \E v \in {last_ok} \cup InProgress : fs_inodes[fs_final] = Envelope(v)
    /\ r_result # "Json"
    /\ r_pc = "read" => \E v \in 1..MaxSaves : IsPrefix(r_buf, Envelope(v))

\* a load is half way through the file of an earlier save while the next save
\* is writing, after a save that failed left its temp file behind
C5_Witness ==
    /\ r_pc = "read"
    /\ Len(r_buf) = 1
    /\ \E w \in DOMAIN w_pc : w_pc[w] = "flush" /\ w_env[w] > last_ok + 1
    /\ last_ok > 0

(***************************************************************************)
(* C6                                                                      *)
(***************************************************************************)
AllReturned == \A w \in DOMAIN w_pc : w_pc[w] = "idle" /\ w_result[w] # "none"

\* C6: once the concurrent save calls have returned, one of them with Ok, the
\* final file is the whole envelope of one of the writes, never a mixture and
\* never a truncated file.
C6_OneWriteWins ==
    (AllReturned /\ \E w \in DOMAIN w_pc : w_result[w] = "Ok")
        => /\ fs_final # 0
           /\ \E v \in 1..(next_env - 1) : fs_inodes[fs_final] = Envelope(v)

(***************************************************************************)
(* C7                                                                      *)
(***************************************************************************)
\* C7: after a save that failed, at whatever step, no temp file for the
\* session id is left in the sessions directory.
C7_NoTempFileAfterFailure ==
    \A w \in DOMAIN w_pc :
        (w_pc[w] = "idle" /\ w_result[w] = "Err") => fs_temp = 0

(***************************************************************************)
(* C8                                                                      *)
(***************************************************************************)
\* C8: a save of a loaded session leaves the unknown top-level fields of the
\* stored envelope in it, with the same values.
C8_ExtraFieldsSurvive ==
    [][(env_op' = "save" /\ disk # NoFile) => disk'.extra = disk.extra]_vars

(***************************************************************************)
(* C9                                                                      *)
(***************************************************************************)
\* "<major>.<minor>" with the current major: one dot, a number on each side
\* of it, the first one equal to the major of V1_0
HasCurrentMajor(sv) ==
    \E i \in DOMAIN sv :
        /\ sv[i] = "."
        /\ \A j \in DOMAIN sv : sv[j] = "." => j = i
        /\ ParseU32(SubSeq(sv, 1, i - 1)) = V1_0.major
        /\ ParseU32(SubSeq(sv, i + 1, Len(sv))) >= 0

\* C9: a load returns a session only when the stored schema_version parses as
\* "<major>.<minor>" with the current major, and then returns the session as
\* stored, whatever the minor; otherwise it returns an error and no session.
C9_LoadChecksMajor ==
    (env_op = "load" /\ disk # NoFile) =>
        IF HasCurrentMajor(disk.schema_version)
        THEN load_ret = [tag |-> "Ok", session |-> disk.session]
        ELSE load_ret = [tag |-> "Validation"]

\* a load has accepted a stored envelope of another minor version
C9_Witness ==
    /\ env_op = "load"
    /\ disk # NoFile
    /\ disk.schema_version = <<"1", ".", "2">>
    /\ load_ret.tag = "Ok"

(***************************************************************************)
(* C10                                                                     *)
(***************************************************************************)
\* less than the interval has elapsed since the last auto_save that persisted
TooSoon == \E p \in last_persist : now - p.at < auto_save_interval

\* the session given to the call is in the storage as the call left it
Persisted == storage' = [storage EXCEPT ![mgr_op'.session] = sessions'[mgr_op'.session]]

\* C10 as stated: an auto_save call returns false and writes nothing when less
\* than the interval has elapsed since the last auto_save that persisted,
\* whichever session that was, and otherwise returns true and persists the
\* given session.
C10_ThrottleOrPersist ==
    [][mgr_op'.name = "auto_save" =>
          IF TooSoon
          THEN mgr_ret' = "false" /\ storage' = storage
          ELSE mgr_ret' = "true" /\ Persisted]_vars

\* C10 as amended: ... and otherwise saves the given session: it returns true
\* when the storage's save succeeds, and when that save fails it returns the
\* error, the storage is unchanged and the call does not count as an
\* auto-save for the throttle.
C10_ThrottleOrSave ==
    [][mgr_op'.name = "auto_save" =>
          IF TooSoon
          THEN mgr_ret' = "false" /\ storage' = storage
          ELSE \/ mgr_ret' = "true" /\ Persisted
               \/ mgr_ret' = "Err" /\ storage' = storage]_vars

\* an auto_save of one session has been throttled by the auto_save of the
\* other one, with an edit to write
C10_Witness ==
    /\ mgr_op.name = "auto_save"
    /\ mgr_ret = "false"
    /\ \E p \in last_persist : p.session # mgr_op.session
    /\ sessions[mgr_op.session] # storage[mgr_op.session]

(***************************************************************************)
(* C11                                                                     *)
(***************************************************************************)
\* the storage with session x saved under id
StoredUnder(st, id, x) ==
    [i \in DOMAIN st \cup {id} |-> IF i = id THEN x ELSE st[i]]

OlderThan(st, before) == {i \in DOMAIN st : st[i].updated_at < before}

C14_FailingCallsChangeNothing ==
    [][/\ (cm_op' = "add" /\ cm_arg' \in DOMAIN comments)
             => cm_result' = "Validation"
       /\ (cm_op' \in {"delete", "update", "update_state"}
             /\ cm_arg' \notin DOMAIN comments)
             => cm_result' = "CommentNotFound"
       /\ (cm_op' # "delete_by_file"
             /\ cm_result' \in {"Validation", "CommentNotFound"})
             => (comments' = comments /\ index' = index)]_vars

\* an add has been refused for the id of a stored range comment, another
\* comment being stored too
C14_Witness ==
    /\ cm_op = "add"
    /\ cm_result = "Validation"
    /\ cm_arg \in DOMAIN comments
    /\ comments[cm_arg].line_ref.kind = "Range"
    /\ Cardinality(DOMAIN comments) = 2

(***************************************************************************)
(* C15                                                                     *)
(***************************************************************************)
\* no key of the map has an empty list
NoEmptyBucket(m) == \A k \in DOMAIN m : m[k] # <<>>

\* C15: after any sequence of CommentIndex add and remove calls no key of the
\* by-line, by-file or by-severity map has an empty list, so
\* has_comments_on_line(l) is true exactly when the by-line map has the key l.
C15_NoEmptyBuckets ==
    /\ NoEmptyBucket(index.by_line)
    /\ NoEmptyBucket(index.by_file)
    /\ NoEmptyBucket(index.by_severity)
    /\ \A l \in LineIdSet :
          has_comments_on_line(index, l) <=> l \in DOMAIN index.by_line

\* a remove has emptied and dropped the bucket of one line while the bucket of
\* another line still has an entry
C15_Witness ==
    /\ cm_op = "index_remove"
    /\ "l2" \notin DOMAIN index.by_line
    /\ "l1" \in DOMAIN index.by_line
    /\ "Warning" \notin DOMAIN index.by_severity
    /\ index.by_file # EmptyMap

(***************************************************************************)
(* C16                                                                     *)
(***************************************************************************)
\* the comments of cs with the line id, the file id, the severity
WithLine(cs, l) == {id \in DOMAIN cs : l \in RangeOf(line_ids(cs[id]))}
WithFile(cs, f) == {id \in DOMAIN cs : file_id(cs[id]) = f}
WithSeverity(cs, v) == {id \in DOMAIN cs : cs[id].severity = v}

\* C16: a Session written out and read back has the same id, the same diff
\* source, the same comment count and the same severity counts; and the
\* CommentManager read back has its index built: it is the index that
\* rebuild_index makes of the comments read (in some order of the map), so
\* that get_by_line, get_by_file and get_by_severity give the comments with
\* that line, file or severity.
C16_RoundTripRebuildsIndex ==
    [][cm_op' = "deserialize" =>
          /\ mem'.id = mem.id
          /\ mem'.diff_source = mem.diff_source
          /\ count(comments') = count(comments)
          /\ count_by_severity(comments') = count_by_severity(comments)
          /\ \E o \in ValueOrders(comments') : index' = rebuild_index(comments', o)
          /\ \A l \in LineIdSet :
                RangeOf(IndexGet(index'.by_line, l)) = WithLine(comments', l)
          /\ \A f \in FileIds :
                RangeOf(IndexGet(index'.by_file, f)) = WithFile(comments', f)
          /\ \A v \in Severity :
                RangeOf(IndexGet(index'.by_severity, v)) = WithSeverity(comments', v)]_vars

\* a session with a struct-variant diff source and two comments, one on a
\* range, has been read back, the index listing them in the other order than
\* they were added in
C16_Witness ==
    /\ cm_op = "deserialize"
    /\ mem.diff_source.kind = "CommitRange"
    /\ DOMAIN comments = {1, 2}
    /\ comments[1].line_ref.kind = "Range"
    /\ comments[1].severity = "Critical"
    /\ IndexGet(index.by_file, "f1") = <<2, 1>>

(***************************************************************************)
(* C17                                                                     *)
(***************************************************************************)
\* the position (f, h, l)
At(f, h, l) == [file_idx |-> f, hunk_idx |-> h, line_idx |-> l]

\* the number of hunks of file f, the number of lines of its hunk h
HunksOf(d, f) == IF f < Len(d) THEN Len(d[f + 1]) ELSE 0
LinesOf(d, f, h) == IF h < HunksOf(d, f) THEN d[f + 1][h + 1] ELSE 0

\* the index of the last hunk of file f and of the last line of its hunk h
\* (0 when there is none)
LastHunk(d, f) == IF HunksOf(d, f) > 0 THEN HunksOf(d, f) - 1 ELSE 0
LastLine(d, f, h) == IF LinesOf(d, f, h) > 0 THEN LinesOf(d, f, h) - 1 ELSE 0

\* C17: next_line moves one line forward inside the current hunk; past the
\* last line of a hunk it moves to line 0 of the next hunk of the same file;
\* past the last hunk of a file it moves to hunk 0, line 0 of the next file.
\* prev_line moves one line back; at line 0 of a hunk it moves to the last
\* line of the previous hunk; at hunk 0 of a file it moves to the last line
\* of the last hunk of the previous file.  (Where the hunk moved to has no
\* line, or the file no hunk, the index is 0.)
C17_LineStepsFallThrough ==
    [][LET f == position.file_idx
           h == position.hunk_idx
           l == position.line_idx
       IN /\ nav_op'.name = "next_line" =>
                IF l + 1 < LinesOf(diff, f, h)
                THEN nav_ret' = "true" /\ position' = At(f, h, l + 1)
                ELSE IF h + 1 < HunksOf(diff, f)
                THEN nav_ret' = "true" /\ position' = At(f, h + 1, 0)
                ELSE IF f + 1 < Len(diff)
                THEN nav_ret' = "true" /\ position' = At(f + 1, 0, 0)
                ELSE nav_ret' = "false"
          /\ nav_op'.name = "prev_line" =>
                IF l > 0
                THEN nav_ret' = "true" /\ position' = At(f, h, l - 1)
                ELSE IF h > 0
                THEN nav_ret' = "true"
                     /\ position' = At(f, h - 1, LastLine(diff, f, h - 1))
                ELSE IF f > 0
                THEN nav_ret' = "true"
                     /\ position' = At(f - 1, LastHunk(diff, f - 1),
                                       LastLine(diff, f - 1, LastHunk(diff, f - 1)))
                ELSE nav_ret' = "false"]_vars

\* prev_line has gone from the first line of a file to the last line of the
\* last of several hunks of the file before it
C17_Witness ==
    /\ nav_op.name = "prev_line"
    /\ nav_ret = "true"
    /\ Len(diff) = 2
    /\ position.file_idx = 0
    /\ position.hunk_idx = 2
    /\ position.line_idx = 1

(***************************************************************************)
(* C18                                                                     *)
(***************************************************************************)
\* C18: from any position on a diff with at least one file, goto_bottom
\* leaves the navigator on the last line of the last hunk of the last file.
C18_GotoBottomReachesLastLine ==
    (nav_op.name = "goto_bottom" /\ Len(diff) > 0) =>
        position = At(Len(diff) - 1, LastHunk(diff, Len(diff) - 1),
                      LastLine(diff, Len(diff) - 1, LastHunk(diff, Len(diff) - 1)))

(***************************************************************************)
(* C19                                                                     *)
(***************************************************************************)
\* the hunks of the DiffData that parse returned
ParsedHunks ==
    IF parse_result.tag = "Ok"
    THEN UNION {RangeOf(parse_result.files[f].hunks) : f \in DOMAIN parse_result.files}
    ELSE {}

\* C19: in every hunk of a DiffData returned by parse the number of Deleted
\* and Context lines is the hunk's old_range.count and the number of Added and
\* Context lines is its new_range.count.
C19_HunkCountsMatchHeader ==
    \A hunk \in ParsedHunks :
        /\ CountTypes(hunk.lines, {"Deleted", "Context"}) = hunk.old_range.count
        /\ CountTypes(hunk.lines, {"Added", "Context"}) = hunk.new_range.count

(***************************************************************************)
(* C20                                                                     *)
(***************************************************************************)
\* the lines of the hunk before its i-th line
Before(hunk, i) == SubSeq(hunk.lines, 1, i - 1)

\* C20: in every hunk returned by parse a Deleted or Context line has the old
\* number old_range.start plus the number of Deleted and Context lines before
\* it in the hunk, an Added or Context line has the new number
\* new_range.start plus the number of Added and Context lines before it; an
\* Added line has no old number, a Deleted line no new number and a NoNewline
\* marker neither.
C20_LineNumbersFromOffsets ==
    \A hunk \in ParsedHunks : \A i \in DOMAIN hunk.lines :
        LET line == hunk.lines[i]
            old_offset == CountTypes(Before(hunk, i), {"Deleted", "Context"})
            new_offset == CountTypes(Before(hunk, i), {"Added", "Context"})
        IN /\ line.line_type \in {"Deleted", "Context"}
                 => line.old_line_num = <<hunk.old_range.start + old_offset>>
           /\ line.line_type \in {"Added", "Context"}
                 => line.new_line_num = <<hunk.new_range.start + new_offset>>
           /\ line.line_type \in {"Added", "NoNewline"} => line.old_line_num = <<>>
           /\ line.line_type \in {"Deleted", "NoNewline"} => line.new_line_num = <<>>

\* parse has returned a hunk whose header gives no count for the old side,
\* with a context line after an added line
C20_Witness ==
    \E hunk \in ParsedHunks :
        /\ hunk.old_range = [start |-> 5, count |-> 1]
        /\ Len(hunk.lines) = 2
        /\ hunk.lines[1].line_type = "Added"
        /\ hunk.lines[2].line_type = "Context"
        /\ hunk.lines[2].old_line_num = <<5>>
        /\ hunk.lines[2].new_line_num = <<8>>
(***************************************************************************)
(* C21                                                                     *)
(***************************************************************************)
\* a header that cannot be decomposed, or whose range is not a number
BadHeader(line) ==
    \/ line.kind = "diff_git" /\ parse_diff_header(line) = <<>>
    \/ line.kind = "hunk" /\ parse_hunk_header(line) = <<>>

\* C21: on every input text parse ends by returning a DiffData or an
\* InvalidDiff error and in no other way, and it returns InvalidDiff whenever
\* a header of the text cannot be decomposed or a range number does not
\* parse.
C21_ParseReturnsOrInvalidDiff ==
    parse_result # NotParsed =>
        /\ parse_result.tag \in {"Ok", "InvalidDiff"}
        /\ (\E i \in DOMAIN parse_input : BadHeader(parse_input[i]))
              => parse_result = InvalidDiff
(***************************************************************************)
(* C22                                                                     *)
(***************************************************************************)
\* C22: once load_lazy_file has returned Ok for a lazy file the file is not
\* lazy, it never becomes lazy again, and a further load_lazy_file call on it
\* leaves its hunks, its lines and its mode as they are, whatever the file
\* system holds by then.
C22_LoadedOnce ==
    [][/\ (lazy_op'.name = "load_lazy_file" /\ lazy_op'.ret = "Ok")
             => ~lazy_file'.lazy
       /\ ~lazy_file.lazy => lazy_file' = lazy_file]_vars

\* a second call has returned on a file loaded from two lines, after the file
\* on disk was replaced by one that is too large
C22_Witness ==
    /\ lazy_op.name = "load_lazy_file"
    /\ lazy_op.ret = "Ok"
    /\ lazy_op.before.mode = "Added"
    /\ ~lazy_op.before.lazy
    /\ Len(lazy_op.before.hunks) = 1
    /\ Len(lazy_op.before.hunks[1].lines) = 2
    /\ disk_file.kind = "too_large"
    /\ lazy_file = lazy_op.before

(***************************************************************************)
(* C23                                                                     *)
(***************************************************************************)
\* the lines of a file
FileLines(file) ==
    UNION {RangeOf(file.hunks[h].lines) : h \in DOMAIN file.hunks}

\* the file was listed lazily and its content has been loaded
LoadedLazily == lazy_file.mode = "Added" /\ ~lazy_file.lazy /\ lazy_file.old_path = <<>>

\* C23: a line that load_lazy_file produced has the LineId that parse gives
\* to an Added line of a file of the same path, with the same content and
\* the same new line number.
C23_SameLineIdAsParsed ==
    (parse_result.tag = "Ok" /\ LoadedLazily) =>
        \A f \in DOMAIN parse_result.files :
            LET file == parse_result.files[f] IN
            display_path(file) = display_path(lazy_file) =>
                \A p \in FileLines(file), l \in FileLines(lazy_file) :
                    (/\ p.line_type = "Added"
                     /\ p.content = l.content
                     /\ p.new_line_num = l.new_line_num) => p.id = l.id

\* the diff text adds the file f with the lines x and y, and the file loaded
\* lazily has the lines y and y: their second lines agree
C23_Witness ==
    /\ parse_result.tag = "Ok"
    /\ LoadedLazily
    /\ display_path(parse_result.files[1]) = display_path(lazy_file)
    /\ Len(lazy_file.hunks) = 1
    /\ \E p \in FileLines(parse_result.files[1]), l \in FileLines(lazy_file) :
          /\ p.line_type = "Added"
          /\ p.content = <<"y">> /\ l.content = <<"y">>
          /\ p.new_line_num = <<2>> /\ l.new_line_num = <<2>>
          /\ p.id = l.id
    /\ \E p \in FileLines(parse_result.files[1]) : p.content = <<"x">>
(***************************************************************************)
(* C29                                                                     *)
(***************************************************************************)
\* the places of the lines of a file: the hunk and the index in the hunk
LinePlaces(file) ==
    {<<h, i>> : h \in DOMAIN file.hunks, i \in 1..MaxLines} \cap
    UNION {{<<h, i>> : i \in DOMAIN file.hunks[h].lines} : h \in DOMAIN file.hunks}

\* C29: within one file of a DiffData returned by parse two different lines
\* never have the same LineId.
C29_LineIdsUniqueInFile ==
    parse_result.tag = "Ok" =>
        \A f \in DOMAIN parse_result.files :
            LET file == parse_result.files[f] IN
            \A p, q \in LinePlaces(file) :
                p # q => file.hunks[p[1]].lines[p[2]].id
                            # file.hunks[q[1]].lines[q[2]].id
(***************************************************************************)
(* C28                                                                     *)
(***************************************************************************)
\* C28: from every position the navigator reaches, when next_line returns
\* true a prev_line called next returns true and leaves the position
\* next_line started from, and when prev_line returns true a next_line
\* called next returns true and leaves the position prev_line started from.
C28_LineStepsUndo ==
    LET down == next_line(diff, position)
        up == prev_line(diff, position)
    IN /\ down.ret => /\ prev_line(diff, down.pos).ret
                       /\ prev_line(diff, down.pos).pos = position
       /\ up.ret => /\ next_line(diff, up.pos).ret
                     /\ next_line(diff, up.pos).pos = position
(***************************************************************************)
(* C26                                                                     *)
(***************************************************************************)
\* C26: after any sequence of operations, get_mut with set_severity and
\* later deletes included, get_by_severity(s) returns exactly the stored
\* comments whose severity is now s, as many as count_by_severity counts.
C26_BySeverityIsCurrent ==
    \A s \in Severity :
        LET got == get_by_severity(comments, index, s)
            counts == count_by_severity(comments)
        IN /\ RangeOf(got) = {comments[id] : id \in StoredWithSeverity(s)}
           /\ Len(got) = IF s \in DOMAIN counts THEN counts[s] ELSE 0
(***************************************************************************)
(* C27                                                                     *)
(***************************************************************************)
\* C27: of two create_with_id calls with one id that run at the same time
\* over one storage at most one succeeds, and the session stored under the id
\* is then the one the successful call created.
C27_OneCreatorPerId ==
    \A p, q \in Callers :
        (/\ callers[p].ret.tag = "Ok"
         /\ callers[q].id = callers[p].id
         /\ q # p) =>
            /\ callers[q].ret.tag # "Ok"
            /\ storage[callers[p].id] = callers[p].ret.session
(***************************************************************************)
(* C25                                                                     *)
(***************************************************************************)
\* C25: in the JSON export the ln field of a review is a bare integer for a
\* single-line comment and an array of two elements, start and end, for a
\* range comment.
C25_LnIsNumberOrPair ==
    export_out # NoExport =>
        LET ln == export_out.v.loc.v.ln IN
        IF export_in.line_ref.kind = "SingleLine"
        THEN ln.t = "num"
        ELSE ln.t = "arr" /\ Len(ln.v) = 2

\* the ids of the lines of the file of the session's diff whose id is fid
DiffLineIds(a, fid) ==
    UNION {{l.id : l \in RangeOf(FlatLines(a.files[i]))} :
              i \in {j \in DOMAIN a.files : a.files[j].id = fid}}

\* C24: every comment held in the CommentManager of the session reviewed in
\* the TUI has content that is not blank, no blank tag, and a line reference
\* whose file id is the id of a file of the session's diff and whose line ids
\* are ids of lines of that file
C24_CommentsAreValid ==
    app # NoApp =>
        \A id \in DOMAIN app.comments :
            LET c == app.comments[id]
            IN /\ trim(c.content) # <<>>
               /\ \A t \in DOMAIN c.tags : c.tags[t] # <<>>
               /\ \E i \in DOMAIN app.files : app.files[i].id = c.line_ref.file_id
               /\ \A l \in DOMAIN c.line_ref.lines :
                      c.line_ref.lines[l] \in DiffLineIds(app, c.line_ref.file_id)

\* C30: once the key s has been handled in normal mode and the status
\* message reads "Session saved", the storage holds the session with the
\* comments the CommentManager holds
C30_SavedAfterS ==
    (app # NoApp /\ key = "s" /\ app.message = <<"Session saved">>) =>
        saved.comments = app.comments

====
